---- MODULE Spec2Model ----
(***************************************************************************)
(* FakeStoreTesting: the schema validator, the assertion and response      *)
(* validator helpers and the test-data generators, as a state machine of   *)
(* helper calls.  A call is drawn at Init; the helper then executes its    *)
(* statements one at a time.  A failing expect(...) or a throw statement   *)
(* raises: the call ends "thrown" and the remaining statements never run.  *)
(* The suites are a second machine over the same helpers: a suite runs its *)
(* hooks and its scenarios, a scenario issues requests through apiClient   *)
(* and runs its continuation once the responses have arrived.  The module  *)
(* loading under NODE_ENV, retryWithBackoff and the methods of TestContext *)
(* called in any order are three further machines.                         *)
(***************************************************************************)
EXTENDS Integers, Sequences, FiniteSets, TLC

VARIABLES
    call,       \* the helper being called and its arguments
    pc,         \* "called" | "running" | "returned" | "thrown"
    step,       \* index of the next statement of the helper's body
    executed,   \* labels of the statements executed so far, in order
    ret,        \* the value returned (NoValue until the call returns)
    currentEnv, \* the active profile (NODE_ENV, or development)
    suite,      \* the suite being run, or "none"
    suitesRun,  \* the suites run to their end
    position,   \* the place in the file of the scenario started last
    scenario,   \* the scenario started last, or "none"
    stage,      \* the stage the scenario is at
    requests,   \* the client calls of the scenario, each with its request
    verdict,    \* "none" | "running" | "passed" | "failed"
    testContext,\* the shared TestContext: the tracking list and the timer
    clock,      \* Date.now()
    lastWrite,  \* the last call that wrote the tracking list, and its caller
    NODE_ENV,   \* process.env.NODE_ENV, Undefined when unset
    modules,    \* environment.js, apiClient.js and jest.setup.js as loaded
    retry,      \* the activation of retryWithBackoff
    caller      \* what a caller of the TestContext methods did and holds

callVars == <<call, pc, step, executed, ret>>
suiteVars ==
    <<currentEnv, suite, suitesRun, position, scenario, stage, requests, verdict,
      testContext, clock, lastWrite>>
unitVars == <<NODE_ENV, modules, retry, caller>>
vars == <<callVars, suiteVars, unitVars>>

(***************************************************************************)
(* JavaScript values.  A number is the decimal n / 10^e, kept normalised   *)
(* (no trailing zero in the fraction), or NaN.  A string is a string.  An   *)
(* object is a function from its own keys to                               *)
(* values; ref is its identity (two objects with the same keys and values  *)
(* are the same object only if their refs agree).                          *)
(***************************************************************************)
Undefined == [t |-> "undefined"]
Null == [t |-> "null"]
NaN == [t |-> "nan"]
Num(n, e) == [t |-> "number", n |-> n, e |-> e]
IntV(n) == Num(n, 0)
NegZero == [t |-> "number", n |-> 0, e |-> 0, neg |-> TRUE]
Str(s) == [t |-> "string", s |-> s]
Bool(b) == [t |-> "boolean", b |-> b]
Obj(f) == [t |-> "object", f |-> f, ref |-> 0]
ObjAt(f, r) == [t |-> "object", f |-> f, ref |-> r]
NoValue == [t |-> "none"]
\* in the arguments of an object builder: a key the object lacks
Absent == [t |-> "absent"]

\* typeof v
TypeOf(v) ==
    CASE v.t = "undefined" -> "undefined"
      [] v.t = "null" -> "object"
      [] v.t = "nan" -> "number"
      [] OTHER -> v.t

\* o[k]: a property read; a missing key reads as undefined
Get(o, k) == IF o.t = "object" /\ k \in DOMAIN o.f THEN o.f[k] ELSE Undefined

\* Object.prototype.hasOwnProperty / toHaveProperty on a plain object
HasProperty(o, k) == o.t = "object" /\ k \in DOMAIN o.f

RECURSIVE Pow10(_)
Pow10(e) == IF e = 0 THEN 1 ELSE 10 * Pow10(e - 1)

\* a < b and a <= b on decimals
NumLT(a, b) == a.n * Pow10(b.e) < b.n * Pow10(a.e)
NumLE(a, b) == a.n * Pow10(b.e) <= b.n * Pow10(a.e)

IsNum(v) == v.t = "number"
IsInteger(v) == IsNum(v) /\ v.e = 0

RECURSIVE Normalise(_, _)
Normalise(n, e) ==
    IF e > 0 /\ n % 10 = 0 THEN Normalise(n \div 10, e - 1) ELSE Num(n, e)

(***************************************************************************)
(* Strings                                                                 *)
(***************************************************************************)
CharAt(s, i) == SubSeq(s, i, i)
Drop(s, k) == SubSeq(s, k + 1, Len(s))
Last(s) == CharAt(s, Len(s))
Front(s) == SubSeq(s, 1, Len(s) - 1)

Digits == <<"0", "1", "2", "3", "4", "5", "6", "7", "8", "9">>
IsDigit(c) == \E i \in 1..Len(Digits) : Digits[i] = c
DigitVal(c) == (CHOOSE i \in 1..Len(Digits) : Digits[i] = c) - 1
IsSpace(c) == c \in {" ", "\t", "\n"}
IsAlpha(c) ==
    c \in {"a", "b", "c", "d", "e", "f", "g", "h", "i", "j", "k", "l", "m",
           "n", "o", "p", "q", "r", "s", "t", "u", "v", "w", "x", "y", "z",
           "A", "B", "C", "D", "E", "F", "G", "H", "I", "J", "K", "L", "M",
           "N", "O", "P", "Q", "R", "S", "T", "U", "V", "W", "X", "Y", "Z"}

\* String.prototype.trim
RECURSIVE TrimLeft(_)
TrimLeft(s) == IF s # "" /\ IsSpace(Head(s)) THEN TrimLeft(Tail(s)) ELSE s
RECURSIVE TrimRight(_)
TrimRight(s) == IF s # "" /\ IsSpace(Last(s)) THEN TrimRight(Front(s)) ELSE s
Trim(s) == TrimRight(TrimLeft(s))

\* String.prototype.includes / toContain on a string
RECURSIVE Contains(_, _)
Contains(hay, needle) ==
    IF Len(hay) < Len(needle) THEN FALSE
    ELSE IF SubSeq(hay, 1, Len(needle)) = needle THEN TRUE
    ELSE Contains(Tail(hay), needle)

\* the longest prefix of digits of s, and the value of a digit string
RECURSIVE DigitPrefix(_)
DigitPrefix(s) ==
    IF s # "" /\ IsDigit(Head(s)) THEN Head(s) \o DigitPrefix(Tail(s)) ELSE ""
RECURSIVE DigitsValue(_)
DigitsValue(s) ==
    IF s = "" THEN 0 ELSE 10 * DigitsValue(Front(s)) + DigitVal(Last(s))

(***************************************************************************)
(* Joi's conversion of a string to a number (convert is on by default):    *)
(* the text, blanks around it aside, must be an optional sign, then digits *)
(* with an optional fraction or a fraction alone, and is then read by      *)
(* parseFloat.  NoValue when the text is not such a numeral.               *)
(***************************************************************************)
ParseNumber(s) ==
    LET t == Trim(s)
        signed == t # "" /\ Head(t) \in {"+", "-"}
        neg == t # "" /\ Head(t) = "-"
        r == IF signed THEN Tail(t) ELSE t
        ip == DigitPrefix(r)
        after == Drop(r, Len(ip))
        dotted == after # "" /\ Head(after) = "."
        fp == IF dotted THEN DigitPrefix(Tail(after)) ELSE ""
        tail == IF dotted THEN Drop(Tail(after), Len(fp)) ELSE after
        matches == /\ tail = ""
                   /\ \/ ip # ""
                      \/ dotted /\ fp # ""
        mag == DigitsValue(ip \o fp)
    IN  IF matches
        THEN Normalise(IF neg THEN 0 - mag ELSE mag, Len(fp))
        ELSE NoValue

\* the scheme of a URI text with its ":", or "" if the text has none
RECURSIVE SchemeOf(_)
SchemeOf(s) ==
    IF s = "" THEN ""
    ELSE IF Head(s) = ":" THEN ":"
    ELSE IF IsAlpha(Head(s)) \/ IsDigit(Head(s)) \/ Head(s) \in {"+", "-", "."}
         THEN LET q == SchemeOf(Tail(s)) IN IF q = "" THEN "" ELSE Head(s) \o q
         ELSE ""

\* Joi string().uri(): an RFC 3986 URI: scheme ":" hier-part, no blank in it;
\* an http(s) URI must go on with "//" and an authority
IsUri(s) ==
    LET sc == SchemeOf(s)
        rest == Drop(s, Len(sc))
    IN  /\ Len(sc) >= 2
        /\ IsAlpha(Head(s))
        /\ \A i \in 1..Len(rest) : ~IsSpace(CharAt(rest, i))
        /\ sc \in {"http:", "https:"} =>
              /\ Len(rest) >= 3
              /\ SubSeq(rest, 1, 2) = "//"
              /\ CharAt(rest, 3) # "/"

(***************************************************************************)
(* Joi schemas as data: a type, its rules in the order they were chained,  *)
(* and whether .required() was chained.                                    *)
(***************************************************************************)
Rule(name, arg) == [name |-> name, arg |-> arg]
NumberSchema(rules, required) == [type |-> "number", rules |-> rules, required |-> required]
StringSchema(rules, required) == [type |-> "string", rules |-> rules, required |-> required]
ObjectSchema(keys, required) == [type |-> "object", keys |-> keys, required |-> required]
Key(k, schema) == [key |-> k, schema |-> schema]

Err(path, type) == [path |-> path, type |-> type]

\* one rule of a number schema against a number
NumberRuleHolds(v, rule) ==
    CASE rule.name = "integer" -> IsInteger(v)
      [] rule.name = "positive" -> v.n > 0
      [] rule.name = "min" -> NumLE(IntV(rule.arg), v)
      [] rule.name = "max" -> NumLE(v, IntV(rule.arg))

StringRuleHolds(s, rule) ==
    CASE rule.name = "uri" -> IsUri(s)

\* the rules of a schema in order; with abortEarly the first failure ends it
RECURSIVE RunNumberRules(_, _, _, _, _)
RunNumberRules(v, rules, i, path, prefs) ==
    IF i > Len(rules) THEN <<>>
    ELSE IF NumberRuleHolds(v, rules[i])
         THEN RunNumberRules(v, rules, i + 1, path, prefs)
         ELSE IF prefs.abortEarly
              THEN <<Err(path, "number." \o rules[i].name)>>
              ELSE <<Err(path, "number." \o rules[i].name)>>
                       \o RunNumberRules(v, rules, i + 1, path, prefs)

RECURSIVE RunStringRules(_, _, _, _, _)
RunStringRules(s, rules, i, path, prefs) ==
    IF i > Len(rules) THEN <<>>
    ELSE IF StringRuleHolds(s, rules[i])
         THEN RunStringRules(s, rules, i + 1, path, prefs)
         ELSE IF prefs.abortEarly
              THEN <<Err(path, "string." \o rules[i].name)>>
              ELSE <<Err(path, "string." \o rules[i].name)>>
                       \o RunStringRules(s, rules, i + 1, path, prefs)

\* the value a number schema judges: a numeral text is converted first
Coerced(value, prefs) ==
    IF prefs.convert /\ value.t = "string" /\ ParseNumber(value.s) # NoValue
    THEN ParseNumber(value.s)
    ELSE value

ValidateNumber(value, schema, path, prefs) ==
    LET v == Coerced(value, prefs)
    IN  IF ~IsNum(v)
        THEN <<Err(path, "number.base")>>
        ELSE RunNumberRules(v, schema.rules, 1, path, prefs)

ValidateString(value, schema, path, prefs) ==
    IF value.t # "string" THEN <<Err(path, "string.base")>>
    ELSE IF value.s = "" THEN <<Err(path, "string.empty")>>
    ELSE RunStringRules(value.s, schema.rules, 1, path, prefs)

\* own keys in insertion order (objects are built in this key order)
KeyOrder ==
    <<"id", "title", "price", "description", "category", "image", "rating",
      "rate", "count", "extra">>

SchemaKeys(schema) == {schema.keys[i].key : i \in 1..Len(schema.keys)}

\* keys of the object the schema does not declare: object.unknown, each
RECURSIVE UnknownKeys(_, _, _, _, _)
UnknownKeys(obj, schema, i, path, prefs) ==
    IF i > Len(KeyOrder) THEN <<>>
    ELSE IF KeyOrder[i] \in DOMAIN obj.f /\ KeyOrder[i] \notin SchemaKeys(schema)
         THEN IF prefs.abortEarly
              THEN <<Err(path \o <<KeyOrder[i]>>, "object.unknown")>>
              ELSE <<Err(path \o <<KeyOrder[i]>>, "object.unknown")>>
                       \o UnknownKeys(obj, schema, i + 1, path, prefs)
         ELSE UnknownKeys(obj, schema, i + 1, path, prefs)

RECURSIVE Validate(_, _, _, _)
RECURSIVE ValidateKeys(_, _, _, _, _)

\* the declared keys in order, then the undeclared ones
ValidateKeys(obj, schema, i, path, prefs) ==
    IF i > Len(schema.keys)
    THEN UnknownKeys(obj, schema, 1, path, prefs)
    ELSE LET child == schema.keys[i]
             errs == Validate(Get(obj, child.key), child.schema,
                              path \o <<child.key>>, prefs)
         IN  IF errs # <<>> /\ prefs.abortEarly
             THEN errs
             ELSE errs \o ValidateKeys(obj, schema, i + 1, path, prefs)

\* schema.validate(value, prefs): the error details, <<>> when there is no error
Validate(value, schema, path, prefs) ==
    IF value.t = "undefined"
    THEN IF schema.required THEN <<Err(path, "any.required")>> ELSE <<>>
    ELSE CASE schema.type = "number" -> ValidateNumber(value, schema, path, prefs)
           [] schema.type = "string" -> ValidateString(value, schema, path, prefs)
           [] schema.type = "object" ->
                IF value.t # "object"
                THEN <<Err(path, "object.base")>>
                ELSE ValidateKeys(value, schema, 1, path, prefs)

(***************************************************************************)
(* The schemas of schemaValidator                                          *)
(***************************************************************************)
ratingSchema ==
    ObjectSchema(
        <<Key("rate", NumberSchema(<<Rule("min", 0), Rule("max", 5)>>, TRUE)),
          Key("count", NumberSchema(<<Rule("integer", 0), Rule("min", 0)>>, TRUE))>>,
        FALSE)

productSchema ==
    ObjectSchema(
        <<Key("id", NumberSchema(<<Rule("integer", 0), Rule("positive", 0)>>, TRUE)),
          Key("title", StringSchema(<<>>, TRUE)),
          Key("price", NumberSchema(<<Rule("positive", 0)>>, TRUE)),
          Key("description", StringSchema(<<>>, TRUE)),
          Key("category", StringSchema(<<>>, TRUE)),
          Key("image", StringSchema(<<Rule("uri", 0)>>, TRUE)),
          Key("rating", ratingSchema)>>,
        FALSE)

productSchemaWithoutRating ==
    ObjectSchema(
        <<Key("id", NumberSchema(<<Rule("integer", 0), Rule("positive", 0)>>, TRUE)),
          Key("title", StringSchema(<<>>, TRUE)),
          Key("price", NumberSchema(<<Rule("min", 0)>>, TRUE)),
          Key("description", StringSchema(<<>>, TRUE)),
          Key("category", StringSchema(<<>>, TRUE)),
          Key("image", StringSchema(<<Rule("uri", 0)>>, TRUE))>>,
        FALSE)

createProductSchema ==
    ObjectSchema(
        <<Key("title", StringSchema(<<>>, TRUE)),
          Key("price", NumberSchema(<<Rule("positive", 0)>>, TRUE)),
          Key("description", StringSchema(<<>>, TRUE)),
          Key("category", StringSchema(<<>>, TRUE)),
          Key("image", StringSchema(<<Rule("uri", 0)>>, TRUE))>>,
        FALSE)

\* module.exports.schemas
schemas(name) ==
    CASE name = "product" -> productSchema
      [] name = "productWithoutRating" -> productSchemaWithoutRating
      [] name = "createProduct" -> createProductSchema
      [] name = "rating" -> ratingSchema

\* Joi's default preferences
JoiDefaults == [abortEarly |-> TRUE, convert |-> TRUE]

\* schema.validate(data, { abortEarly: false }): error is <<>> when undefined
validateSchemaAbortEarly(data, schema) ==
    [error |-> Validate(data, schema, <<>>, JoiDefaults)]
validateSchema(data, schema) ==
    [error |-> Validate(data, schema, <<>>, [JoiDefaults EXCEPT !.abortEarly = FALSE])]

\* assertSchema(data, schema): throws iff validateSchema reports an error
assertSchemaNeverThrows(data, schema) ==
    <<[label |-> "validateSchema", ok |-> TRUE],
      [label |-> "if (error) throw", ok |-> TRUE]>>
assertSchema(data, schema) ==
    <<[label |-> "validateSchema", ok |-> TRUE],
      [label |-> "if (error) throw", ok |-> validateSchema(data, schema).error = <<>>]>>

(***************************************************************************)
(* Jest matchers.  A matcher that fails, and one that cannot be applied to *)
(* what it received, both raise.                                           *)
(***************************************************************************)
Stmt(label, ok) == [label |-> label, ok |-> ok]

\* Object.is, the comparison of toBe: objects by identity, NaN equal to NaN,
\* -0 different from 0
ObjectIs(a, b) == a = b

\* ===: NaN equal to nothing, -0 equal to 0, objects by identity
IsZero(v) == v.t = "number" /\ v.n = 0
StrictEquals(a, b) ==
    IF a.t = "nan" \/ b.t = "nan" THEN FALSE
    ELSE IF IsZero(a) /\ IsZero(b) THEN TRUE
    ELSE a = b

\* a property read o.k raises a TypeError on null and undefined
ReadThrows(o) == o.t \in {"null", "undefined"}

\* toBeGreaterThanOrEqual, toBeLessThanOrEqual, toBeGreaterThan, toBeLessThan:
\* both sides must be numbers; every comparison with NaN is false
BothNumbers(a, b) == TypeOf(a) = "number" /\ TypeOf(b) = "number"
ToBeGreaterThanOrEqual(a, b) == BothNumbers(a, b) /\ IsNum(a) /\ IsNum(b) /\ NumLE(b, a)
ToBeLessThanOrEqual(a, b) == BothNumbers(a, b) /\ IsNum(a) /\ IsNum(b) /\ NumLE(a, b)
ToBeGreaterThan(a, b) == BothNumbers(a, b) /\ IsNum(a) /\ IsNum(b) /\ NumLT(b, a)
ToBeLessThan(a, b) == BothNumbers(a, b) /\ IsNum(a) /\ IsNum(b) /\ NumLT(a, b)

\* toContain on a string: the received value must be a string
ToContainText(received, text) == received.t = "string" /\ Contains(received.s, text)

\* truthiness
Truthy(v) ==
    CASE v.t \in {"undefined", "null", "nan", "absent"} -> FALSE
      [] v.t = "number" -> v.n # 0
      [] v.t = "string" -> v.s # ""
      [] v.t = "boolean" -> v.b
      [] OTHER -> TRUE

\* arrays: [t |-> "array", items |-> <<...>>]; typeof gives "object"
Arr(items) == [t |-> "array", items |-> items]
IsArray(v) == v.t = "array"
TypeOfJs(v) == IF v.t = "array" THEN "object" ELSE TypeOf(v)
\* v.length: defined for arrays and strings
LengthOf(v) ==
    CASE v.t = "array" -> IntV(Len(v.items))
      [] v.t = "string" -> IntV(Len(v.s))
      [] OTHER -> Undefined

\* Object.keys(o) in insertion order
RECURSIVE KeysFrom(_, _)
KeysFrom(o, i) ==
    IF i > Len(KeyOrder) THEN <<>>
    ELSE IF KeyOrder[i] \in DOMAIN o.f
         THEN <<KeyOrder[i]>> \o KeysFrom(o, i + 1)
         ELSE KeysFrom(o, i + 1)
ObjectKeys(o) == IF o.t = "object" THEN KeysFrom(o, 1) ELSE <<>>

(***************************************************************************)
(* assertions.js                                                           *)
(***************************************************************************)
assertStatusCode(response, expectedStatus) ==
    <<Stmt("expect(status).toBe", ObjectIs(response.status, expectedStatus))>>

RECURSIVE RequiredFieldsFrom(_, _, _)
RequiredFieldsFrom(responseBody, requiredFields, i) ==
    IF i > Len(requiredFields) THEN <<>>
    ELSE <<Stmt("toHaveProperty " \o requiredFields[i],
                HasProperty(responseBody, requiredFields[i])),
           Stmt("toBeDefined " \o requiredFields[i],
                Get(responseBody, requiredFields[i]) # Undefined)>>
         \o RequiredFieldsFrom(responseBody, requiredFields, i + 1)
assertRequiredFields(responseBody, requiredFields) ==
    RequiredFieldsFrom(responseBody, requiredFields, 1)

assertFieldType(responseBody, field, expectedType) ==
    <<Stmt("toHaveProperty " \o field, HasProperty(responseBody, field)),
      Stmt("typeof " \o field,
           ~ReadThrows(responseBody) /\ TypeOfJs(Get(responseBody, field)) = expectedType)>>

TypeOfIs(product, field, type) ==
    Stmt("typeof " \o field,
         ~ReadThrows(product) /\ TypeOfJs(Get(product, field)) = type)

assertProductStructure(product, includeRating) ==
    assertRequiredFields(product,
        <<"id", "title", "price", "description", "category", "image">>
            \o (IF includeRating THEN <<"rating">> ELSE <<>>))
    \o <<TypeOfIs(product, "id", "number"),
         TypeOfIs(product, "title", "string"),
         TypeOfIs(product, "price", "number"),
         TypeOfIs(product, "description", "string"),
         TypeOfIs(product, "category", "string"),
         TypeOfIs(product, "image", "string")>>
    \o (IF includeRating
        THEN <<TypeOfIs(product, "rating", "object"),
               Stmt("toHaveProperty rate", HasProperty(Get(product, "rating"), "rate")),
               Stmt("toHaveProperty count", HasProperty(Get(product, "rating"), "count"))>>
        ELSE <<>>)

\* Object.keys(expected).forEach(key => expect(actual[key]).toBe(expected[key]))
RECURSIVE ToBeEachKey(_, _, _, _)
ToBeEachKey(actual, expected, keys, i) ==
    IF i > Len(keys) THEN <<>>
    ELSE <<Stmt("toBe " \o keys[i],
                ~ReadThrows(actual)
                    /\ ObjectIs(Get(actual, keys[i]), Get(expected, keys[i])))>>
         \o ToBeEachKey(actual, expected, keys, i + 1)
MatchEachKey(actual, expected) ==
    IF ReadThrows(expected)
    THEN <<Stmt("Object.keys", FALSE)>>
    ELSE <<Stmt("Object.keys", TRUE)>>
            \o ToBeEachKey(actual, expected, ObjectKeys(expected), 1)

assertProductData(actual, expected) == MatchEachKey(actual, expected)

\* response._fetchRes.elapsedTime || 0
assertResponseTime(response, maxTime) ==
    <<Stmt("read elapsedTime", ~ReadThrows(response.fetchRes)),
      Stmt("toBeLessThan",
           LET t == Get(response.fetchRes, "elapsedTime")
           IN  ToBeLessThan(IF Truthy(t) THEN t ELSE IntV(0), maxTime))>>

assertArrayNotEmpty(arr, minLength) ==
    <<Stmt("Array.isArray toBe true", IsArray(arr)),
      Stmt("length toBeGreaterThanOrEqual",
           ~ReadThrows(arr) /\ ToBeGreaterThanOrEqual(LengthOf(arr), minLength))>>

\* response.headers.get('content-type') is the header's text, or null
assertContentType(response, expectedType) ==
    <<Stmt("headers.get", TRUE),
      Stmt("toContain " \o expectedType, ToContainText(response.contentType, expectedType))>>

assertErrorResponse(responseBody) ==
    <<Stmt("hasOwnProperty", ~ReadThrows(responseBody)),
      Stmt("expect(hasErrorField).toBe(true)",
           \/ HasProperty(responseBody, "error")
           \/ HasProperty(responseBody, "message")
           \/ HasProperty(responseBody, "statusCode"))>>

assertInRangeExclusive(value, min, max) ==
    <<Stmt("toBeGreaterThanOrEqual", ToBeGreaterThan(value, min)),
      Stmt("toBeLessThanOrEqual", ToBeLessThan(value, max))>>
assertInRange(value, min, max) ==
    <<Stmt("toBeGreaterThanOrEqual", ToBeGreaterThanOrEqual(value, min)),
      Stmt("toBeLessThanOrEqual", ToBeLessThanOrEqual(value, max))>>

assertStringNotEmptyNoTrim(str) ==
    <<Stmt("typeof toBe string", TypeOfJs(str) = "string"),
      Stmt("length toBeGreaterThan 0",
           ~ReadThrows(str) /\ ToBeGreaterThan(LengthOf(str), IntV(0)))>>
assertStringNotEmpty(str) ==
    <<Stmt("typeof toBe string", TypeOfJs(str) = "string"),
      Stmt("length toBeGreaterThan 0",
           ~ReadThrows(str) /\ ToBeGreaterThan(LengthOf(str), IntV(0))),
      Stmt("trim not toBe ''", str.t = "string" /\ ~ObjectIs(Str(Trim(str.s)), Str("")))>>

(***************************************************************************)
(* responseValidator.js                                                    *)
(***************************************************************************)
SchemaCheck(response) ==
    <<Stmt("validateSchema", TRUE),
      Stmt("if (error) throw",
           validateSchema(response.json, schemas("product")).error = <<>>)>>

validateGetResponseAlways(response, validateProduct) ==
    assertStatusCode(response, IntV(200))
    \o assertContentType(response, "application/json")
    \o SchemaCheck(response)
validateGetResponse(response, validateProduct) ==
    assertStatusCode(response, IntV(200))
    \o assertContentType(response, "application/json")
    \o (IF validateProduct THEN SchemaCheck(response) ELSE <<>>)

validatePostResponse(response) ==
    <<Stmt("expect([200, 201]).toContain(status)",
           \E st \in {IntV(200), IntV(201)} : StrictEquals(st, response.status))>>
    \o assertContentType(response, "application/json")
    \o <<Stmt("toHaveProperty id", HasProperty(response.json, "id")),
         Stmt("typeof id",
              ~ReadThrows(response.json) /\ TypeOfJs(Get(response.json, "id")) = "number")>>

validatePutResponse(response) ==
    assertStatusCode(response, IntV(200))
    \o assertContentType(response, "application/json")
    \o <<Stmt("toHaveProperty id", HasProperty(response.json, "id"))>>

validateDeleteResponse(response) ==
    assertStatusCode(response, IntV(200))
    \o assertContentType(response, "application/json")

validateErrorResponse(response, expectedStatus) ==
    assertStatusCode(response, expectedStatus)

\* one expected header, content-type: expected is its expected text, or
\* Absent when expectedHeaders is {}
validateHeaders(response, expected) ==
    IF expected = Absent THEN <<>>
    ELSE <<Stmt("headers.get", TRUE),
           Stmt("toBeTruthy", Truthy(response.contentType))>>
         \o (IF Truthy(expected)
             THEN <<Stmt("toContain", ~ReadThrows(expected)
                                        /\ expected.t = "string"
                                        /\ ToContainText(response.contentType, expected.s))>>
             ELSE <<>>)

\* toEqual in place of toBe: objects compared by their contents
DeepEquals(a, b) ==
    IF a.t = "object" /\ b.t = "object" THEN a.f = b.f ELSE ObjectIs(a, b)
validateProductMatchesSubmittedDataToEqual(responseProduct, submittedData) ==
    IF ReadThrows(submittedData)
    THEN <<Stmt("Object.keys", FALSE)>>
    ELSE <<Stmt("Object.keys", TRUE)>>
            \o [i \in 1..Len(ObjectKeys(submittedData)) |->
                  Stmt("toBe " \o ObjectKeys(submittedData)[i],
                       ~ReadThrows(responseProduct)
                         /\ DeepEquals(Get(responseProduct, ObjectKeys(submittedData)[i]),
                                       Get(submittedData, ObjectKeys(submittedData)[i])))]
validateProductMatchesSubmittedData(responseProduct, submittedData) ==
    MatchEachKey(responseProduct, submittedData)

validateArrayResponse(response, minLength) ==
    assertStatusCode(response, IntV(200))
    \o <<Stmt("Array.isArray toBe true", IsArray(response.json)),
         Stmt("length toBeGreaterThanOrEqual",
              ~ReadThrows(response.json)
                /\ ToBeGreaterThanOrEqual(LengthOf(response.json), minLength))>>

(***************************************************************************)
(* Inputs: candidate objects                                               *)
(***************************************************************************)
MkObj(fields) ==
    Obj([k \in {x \in DOMAIN fields : fields[x] # Absent} |-> fields[k]])

Rating(rate, count) == MkObj([rate |-> rate, count |-> count])

IdValues ==
    {Absent, IntV(1), IntV(0), Num(15, 1), Num(0 - 15, 1), Str("7"), Str("x")}
TitleValues == {Absent, Str("a"), Str(""), IntV(5)}
PriceValues ==
    {Absent, Num(1, 2), IntV(0), IntV(0 - 50), Str("2.5"), Str("invalid_price")}
ImageValues == {Str("http://a"), Str("a"), Absent}
RatingValues ==
    {Absent, Null, Str("x"),
     Rating(IntV(0), IntV(0)), Rating(IntV(5), IntV(120)),
     Rating(Num(51, 1), Num(15, 1)), Rating(IntV(0 - 1), IntV(0 - 1)),
     Rating(Absent, Absent), Rating(Str("4.5"), Str("3"))}
ExtraValues == {Absent, IntV(1)}

Product(id, title, price, image, rating, extra) ==
    MkObj([id |-> id, title |-> title, price |-> price, description |-> Str("d"),
           category |-> Str("electronics"), image |-> image, rating |-> rating,
           extra |-> extra])

\* objects that deviate from a well-formed product in id, price and rating
Candidates ==
    {Product(id, Str("a"), price, Str("http://a"), rating, Absent) :
        id \in IdValues, price \in PriceValues, rating \in RatingValues}
\* objects that deviate in the other fields, two fields at a time and more
WideCandidates ==
    {Product(id, title, price, image, rating, extra) :
        id \in {IntV(1), Absent, Num(0 - 15, 1)}, title \in TitleValues,
        price \in {Num(1, 2), IntV(0)}, image \in ImageValues,
        rating \in {Absent, Rating(IntV(5), IntV(120)), Rating(Num(51, 1), Num(15, 1))},
        extra \in ExtraValues}

SchemaNames == {"product", "productWithoutRating", "createProduct"}

SchemaCalls ==
    {[fn |-> "validateSchema", data |-> d, schema |-> n] :
        d \in Candidates \cup WideCandidates \cup {Undefined, Null}, n \in SchemaNames}
    \cup {[fn |-> "validateSchema", data |-> d, schema |-> "rating"] :
            d \in RatingValues \ {Absent}}
    \cup {[fn |-> "assertSchema", data |-> d, schema |-> n] :
            d \in Candidates, n \in {"product", "createProduct"}}

(***************************************************************************)
(* Inputs: responses and the arguments of the helpers                      *)
(***************************************************************************)
Response(status, contentType, json) ==
    [status |-> status, contentType |-> contentType, json |-> json,
     fetchRes |-> Obj([elapsedTime |-> IntV(120)])]

GoodProduct ==
    Product(IntV(1), Str("a"), Num(1, 2), Str("http://a"), Rating(IntV(5), IntV(120)), Absent)
NoRatingProduct ==
    Product(IntV(1), Str("a"), Num(1, 2), Str("http://a"), Absent, Absent)
NoIdProduct ==
    Product(Absent, Str("a"), Num(1, 2), Str("http://a"), Absent, Absent)
UndefinedIdProduct ==
    Product(Undefined, Str("a"), Num(1, 2), Str("http://a"), Absent, Absent)
TextIdProduct ==
    Product(Str("7"), Str("a"), Num(1, 2), Str("http://a"), Rating(IntV(5), IntV(120)), Absent)
NullRatingProduct ==
    Product(IntV(1), Str("a"), Num(1, 2), Str("http://a"), Null, Absent)

StatusValues == {IntV(200), IntV(201), IntV(404), IntV(500)}
ContentTypes == {Str("application/json; charset=utf-8"), Str("text/html"), Null}
JsonValues ==
    {GoodProduct, NoRatingProduct, NoIdProduct, UndefinedIdProduct, TextIdProduct,
     NullRatingProduct, Null, Undefined, Arr(<<>>), Arr(<<GoodProduct, GoodProduct>>),
     Obj([error |-> Str("not found")]), Obj([message |-> Str("m")]),
     Obj([statusCode |-> IntV(404)]), Obj(<<>>)}
Responses ==
    {Response(st, ct, j) : st \in StatusValues, ct \in ContentTypes, j \in JsonValues}
OkResponses ==
    {Response(IntV(200), Str("application/json; charset=utf-8"), j) : j \in Candidates}
FetchResValues ==
    {Undefined, Obj(<<>>), Obj([elapsedTime |-> IntV(0)]),
     Obj([elapsedTime |-> IntV(2999)]), Obj([elapsedTime |-> IntV(3000)])}

\* assertInRange: bounds and values around them
RangeBound == 5
RangeValues ==
    {IntV(v) : v \in (0 - 1)..(RangeBound + 1)}
    \cup {Num(10 * v + 5, 1) : v \in (0 - 1)..RangeBound}
    \cup {NaN, NegZero, Str("3"), Null, Undefined}
RangeCalls ==
    {[fn |-> "assertInRange", value |-> v, min |-> IntV(lo), max |-> IntV(hi)] :
        v \in RangeValues, lo \in 0..RangeBound, hi \in 0..RangeBound}

\* assertStringNotEmpty: every text of at most StrLenBound characters over
\* a letter and the blanks, and values that are no strings
StrLenBound == 3
RECURSIVE Texts(_)
Texts(n) ==
    IF n = 0 THEN {""}
    ELSE Texts(n - 1) \cup {t \o c : t \in Texts(n - 1), c \in {"a", " ", "\t", "\n"}}
StringCalls ==
    {[fn |-> "assertStringNotEmpty", str |-> v] :
        v \in {Str(t) : t \in Texts(StrLenBound)}
              \cup {IntV(5), Null, Undefined, Obj(<<>>), Arr(<<Str("a")>>)}}

\* validateProductMatchesSubmittedData: what was submitted, what came back
Nested(r) == ObjAt([rate |-> IntV(4)], r)
MatchValues == {IntV(1), Num(1, 2), IntV(0), NegZero, NaN, Null, Undefined}
SubmittedData ==
    {MkObj([title |-> t, price |-> p, rating |-> n]) :
        t \in {Absent, Str("a")}, p \in MatchValues \cup {Absent},
        n \in {Absent, Nested(1)}}
    \cup {Null, Undefined}
ReturnedProducts ==
    {MkObj([id |-> i, title |-> t, price |-> p, rating |-> n]) :
        i \in {Absent, IntV(21)}, t \in {Str("a"), Str("b")},
        p \in MatchValues \cup {Str("1")},
        n \in {Absent, Nested(1), Nested(2), ObjAt([rate |-> IntV(3)], 3)}}
    \cup {Null}
MatchCalls ==
    {[fn |-> f, actual |-> a, expected |-> e] :
        f \in {"validateProductMatchesSubmittedData"}, a \in ReturnedProducts, e \in SubmittedData}
    \cup {[fn |-> "assertProductData", actual |-> a, expected |-> e] :
            a \in {GoodProduct, NoRatingProduct, Null},
            e \in {GoodProduct, NoRatingProduct, NoIdProduct, TextIdProduct, Null}}

FieldLists ==
    {<<"id", "title">>, <<"rating", "id">>,
     <<"id", "title", "price", "description", "category", "image", "rating">>}

HelperCalls ==
    {[fn |-> "assertStatusCode", response |-> r, expectedStatus |-> e] :
        r \in Responses, e \in {IntV(200), IntV(404)}}
    \cup {[fn |-> "assertRequiredFields", responseBody |-> j, requiredFields |-> fs] :
            j \in JsonValues, fs \in FieldLists}
    \cup {[fn |-> "assertFieldType", responseBody |-> j, field |-> f, expectedType |-> ty] :
            j \in JsonValues, f \in {"id", "rating"}, ty \in {"number", "object"}}
    \cup {[fn |-> "assertProductStructure", product |-> j, includeRating |-> b] :
            j \in JsonValues \cup WideCandidates, b \in BOOLEAN}
    \cup {[fn |-> "assertResponseTime",
           response |-> [Response(IntV(200), Null, Null) EXCEPT !.fetchRes = f],
           maxTime |-> IntV(3000)] : f \in FetchResValues}
    \cup {[fn |-> "assertArrayNotEmpty", arr |-> j, minLength |-> IntV(m)] :
            j \in JsonValues \cup {Arr(<<GoodProduct>>), Str("ab")}, m \in 1..2}
    \cup {[fn |-> "assertContentType", response |-> r, expectedType |-> e] :
            r \in Responses, e \in {"application/json", "json"}}
    \cup {[fn |-> "assertErrorResponse", responseBody |-> j] : j \in JsonValues}
    \cup {[fn |-> "validateGetResponse", response |-> r, validateProduct |-> b] :
            r \in Responses \cup OkResponses, b \in BOOLEAN}
    \cup {[fn |-> f, response |-> r] :
            f \in {"validatePostResponse", "validatePutResponse", "validateDeleteResponse"},
            r \in Responses}
    \cup {[fn |-> "validateErrorResponse", response |-> r, expectedStatus |-> e] :
            r \in Responses, e \in {IntV(404), IntV(400)}}
    \cup {[fn |-> "validateHeaders", response |-> r, expected |-> e] :
            r \in Responses, e \in {Absent, Str(""), Str("json"), Str("xml")}}
    \cup {[fn |-> "validateArrayResponse", response |-> r, minLength |-> IntV(m)] :
            r \in Responses, m \in 1..3}

(***************************************************************************)
(* testDataGenerator: the ID generators.  Math.random() is m / 2^p for an  *)
(* integer m in [0, 2^p): p is 53 in an IEEE double and MantissaBits here. *)
(* A product is rounded to p significant bits, ties to even, as the        *)
(* floating-point multiplication rounds it.                                *)
(***************************************************************************)
MantissaBits == 14

RECURSIVE Pow2(_)
Pow2(k) == IF k = 0 THEN 1 ELSE 2 * Pow2(k - 1)
RECURSIVE BitLength(_)
BitLength(n) == IF n = 0 THEN 0 ELSE 1 + BitLength(n \div 2)

RandomDraws == 0..(Pow2(MantissaBits) - 1)

\* num / 2^p rounded to p significant bits: the numerator of the result
RoundToMantissa(num) ==
    LET b == BitLength(num)
        u == Pow2(b - MantissaBits)
        q == num \div u
        rem == num % u
        up == 2 * rem > u \/ (2 * rem = u /\ q % 2 = 1)
    IN  IF b <= MantissaBits THEN num
        ELSE IF up THEN (q + 1) * u ELSE q * u

\* Math.floor(Math.random() * n) and Math.round(Math.random() * n)
FloorRandomTimes(m, n) == RoundToMantissa(m * n) \div Pow2(MantissaBits)
RoundRandomTimes(m, n) ==
    (2 * RoundToMantissa(m * n) + Pow2(MantissaBits)) \div (2 * Pow2(MantissaBits))

getValidProductIdRounded(m) == IntV(RoundRandomTimes(m, 20) + 1)
getValidProductId(m) == IntV(FloorRandomTimes(m, 20) + 1)

getBoundaryProductIds == Obj([min |-> IntV(1), max |-> IntV(20)])

getInvalidProductId(m) == IntV(FloorRandomTimes(m, 9000) + 1000)

\* environment.js: validProductRange
validProductRange == Obj([min |-> IntV(1), max |-> IntV(20)])

\* generateRandomString: the alphabet the characters are drawn from
chars == "ABCDEFGHIJKLMNOPQRSTUVWXYZabcdefghijklmnopqrstuvwxyz0123456789"

\* the loop of generateRandomString, iterations i to length - 1: one draw a
\* character, the characters in the order of the iterations (the run is cut
\* in halves to keep the evaluation shallow on long strings)
RECURSIVE RandomStringFrom(_, _, _)
RandomStringFrom(length, draws, i) ==
    IF i >= length THEN ""
    ELSE IF i + 1 = length
         THEN CharAt(chars, FloorRandomTimes(draws[i + 1], Len(chars)) + 1)
         ELSE RandomStringFrom((i + length) \div 2, draws, i)
                 \o RandomStringFrom(length, draws, (i + length) \div 2)

generateRandomString(length, draws) == RandomStringFrom(length, draws, 0)

getNonNumericProductId(draws) == Str(generateRandomString(5, draws))

\* num.toFixed(decimals) read back by parseFloat, for num = numerator / 2^p:
\* the nearest multiple of 10^-decimals, the larger one of two equally near
ToFixed(numerator, decimals) ==
    LET whole == numerator \div Pow2(MantissaBits)
        frac == numerator % Pow2(MantissaBits)
    IN  Normalise(whole * Pow10(decimals)
                    + (2 * frac * Pow10(decimals) + Pow2(MantissaBits))
                        \div (2 * Pow2(MantissaBits)),
                  decimals)

\* a generator that forgot to add min
generateRandomNumberNoMin(min, max, decimals, m) ==
    ToFixed(RoundToMantissa(m * (max - min)), decimals)

\* Math.random() * (max - min) + min, each operation rounded, then toFixed
generateRandomNumber(min, max, decimals, m) ==
    ToFixed(RoundToMantissa(RoundToMantissa(m * (max - min))
                              + min * Pow2(MantissaBits)),
            decimals)

\* the categories generateProductData chooses from
generatorCategories ==
    <<Str("electronics"), Str("jewelery"), Str("men's clothing"),
      Str("women's clothing")>>

\* testData.categories
categories ==
    <<Str("electronics"), Str("jewelery"), Str("men's clothing"),
      Str("women's clothing")>>

ProductFields == {"title", "price", "description", "image", "category"}

\* the value each field gets in the object literal before ...overrides
FieldDefaults(overrides, rnd) ==
    [title |->
        IF Truthy(Get(overrides, "title")) THEN Get(overrides, "title")
        ELSE Str("Test Product " \o generateRandomString(5, rnd.title)),
     price |->
        IF Get(overrides, "price") # Undefined THEN Get(overrides, "price")
        ELSE generateRandomNumber(1, 999, 2, rnd.price),
     description |->
        IF Truthy(Get(overrides, "description")) THEN Get(overrides, "description")
        ELSE Str("Test product description "
                    \o generateRandomString(20, rnd.description)),
     image |->
        IF Truthy(Get(overrides, "image")) THEN Get(overrides, "image")
        ELSE Str("https://fakestoreapi.com/img/test.jpg"),
     category |->
        IF Truthy(Get(overrides, "category")) THEN Get(overrides, "category")
        ELSE generatorCategories[
                FloorRandomTimes(rnd.category, Len(generatorCategories)) + 1]]

\* the parameter default: overrides = {} when the argument is undefined
OverridesOrDefault(overrides) ==
    IF overrides = Undefined THEN Obj(<<>>) ELSE overrides

\* a generator without the trailing ...overrides
generateProductDataNoSpread(overrides, rnd) ==
    ObjAt(FieldDefaults(OverridesOrDefault(overrides), rnd),
          OverridesOrDefault(overrides).ref + 1)

\* the object literal: the five fields, then every own key of overrides
generateProductData(overrides, rnd) ==
    LET o == OverridesOrDefault(overrides)
        defaults == FieldDefaults(o, rnd)
    IN  ObjAt([k \in ProductFields \cup DOMAIN o.f |->
                    IF k \in DOMAIN o.f THEN o.f[k] ELSE defaults[k]],
              o.ref + 1)

\* draws that give the first and the last index of the letters and of the
\* digits of chars, and the largest draw
DrawForIndex(k, n) == (k * Pow2(MantissaBits) + n - 1) \div n
StringDraws ==
    {DrawForIndex(k, Len(chars)) : k \in {0, 51, 52, 61}}
        \cup {Pow2(MantissaBits) - 1}
CategoryDraws ==
    {DrawForIndex(k, Len(generatorCategories)) : k \in 0..3}
        \cup {Pow2(MantissaBits) - 1}

\* the draws of one call: the title and the description draw the same each
\* time
Draw(title, price, description, category) ==
    [title |-> title, price |-> price, description |-> description,
     category |-> category]
Rnd(draw) ==
    [title |-> [i \in 1..5 |-> draw.title], price |-> draw.price,
     description |-> [i \in 1..20 |-> draw.description],
     category |-> draw.category]

\* every draw for the price; the other draws at the ends of their ranges
Rnds ==
    {Draw(0, m, 0, 0) : m \in RandomDraws}
        \cup {Draw(t, m, d, c) :
                t \in {0, Pow2(MantissaBits) - 1},
                m \in {0, Pow2(MantissaBits) - 1},
                d \in {0, Pow2(MantissaBits) - 1},
                c \in CategoryDraws}

\* overrides as the tests and the other generators pass them, and the
\* falsy, null and undefined values of each kind
Overrides ==
    {Obj(<<>>),
     Obj([price |-> Num(1, 2)]), Obj([price |-> IntV(0)]),
     Obj([price |-> Num(0 - 50, 0)]), Obj([price |-> Str("invalid_price")]),
     Obj([price |-> Undefined]), Obj([price |-> Null]), Obj([price |-> NaN]),
     Obj([title |-> Str("")]), Obj([title |-> Undefined]), Obj([title |-> Null]),
     Obj([title |-> IntV(0)]), Obj([title |-> Str("Should Fail"), price |-> Num(9999, 2)]),
     Obj([category |-> Str("jewelery")]), Obj([category |-> Str("")]),
     Obj([description |-> Str("")]), Obj([image |-> Str("")]),
     Obj([image |-> Null]), Obj([extra |-> IntV(1)]), Obj([id |-> Undefined]),
     ObjAt([title |-> Str("First Update")], 4)}

GeneratorCalls ==
    {[fn |-> f, m |-> m] :
        f \in {"getValidProductId", "getInvalidProductId"}, m \in RandomDraws}
    \cup {[fn |-> "getBoundaryProductIds"]}
    \cup {[fn |-> "getNonNumericProductId", draws |-> d] :
            d \in [1..5 -> StringDraws]}
    \cup {[fn |-> "generateProductData", overrides |-> Undefined, rnd |-> r] :
            r \in Rnds}
    \cup {[fn |-> "generateProductData", overrides |-> o, rnd |-> r] :
            o \in Overrides, r \in {Draw(0, 0, 0, 0), Draw(1, 1, 1, 1)}}

(***************************************************************************)
(* environment.js, apiClient.js and the TestContext of testHelpers.js      *)
(***************************************************************************)
environments ==
    [development |-> [baseURL |-> "https://fakestoreapi.com", timeout |-> 10000,
                      retryAttempts |-> 3, logLevel |-> "debug"],
     test |-> [baseURL |-> "https://fakestoreapi.com", timeout |-> 10000,
               retryAttempts |-> 3, logLevel |-> "debug"],
     staging |-> [baseURL |-> "https://fakestoreapi.com", timeout |-> 8000,
                  retryAttempts |-> 2, logLevel |-> "info"],
     production |-> [baseURL |-> "https://fakestoreapi.com", timeout |-> 5000,
                     retryAttempts |-> 1, logLevel |-> "error"]]

Profiles == DOMAIN environments

\* config: environments[currentEnv]
config(env) == environments[env]

statusCodes ==
    [OK |-> IntV(200), CREATED |-> IntV(201), BAD_REQUEST |-> IntV(400),
     NOT_FOUND |-> IntV(404), UNPROCESSABLE_ENTITY |-> IntV(422),
     INTERNAL_SERVER_ERROR |-> IntV(500)]

\* the text of a value inside a template literal
RECURSIVE DigitsOf(_)
DigitsOf(n) ==
    IF n < 10 THEN Digits[n + 1] ELSE DigitsOf(n \div 10) \o Digits[(n % 10) + 1]
ToText(v) ==
    CASE v.t = "string" -> v.s
      [] v.t = "number" /\ v.e = 0 ->
            IF v.n < 0 THEN "-" \o DigitsOf(0 - v.n) ELSE DigitsOf(v.n)
      [] OTHER -> v.t

\* endpoints.products and endpoints.productById(id)
products == "/products"
productById(id) == "/products/" \o ToText(id)

\* ApiClient.buildUrl: this.baseURL is config.baseURL
buildUrl(env, endpoint) == config(env).baseURL \o endpoint

\* one frisby request: method, URL, body and the timeout set on it
Request(method, url, body, timeout) ==
    [method |-> method, url |-> url, body |-> body, timeout |-> timeout]

get(env, endpoint) ==
    Request("GET", buildUrl(env, endpoint), NoValue, config(env).timeout)
post(env, endpoint, body) ==
    Request("POST", buildUrl(env, endpoint), body, config(env).timeout)
put(env, endpoint, body) ==
    Request("PUT", buildUrl(env, endpoint), body, config(env).timeout)
delete(env, endpoint) ==
    Request("DELETE", buildUrl(env, endpoint), NoValue, config(env).timeout)
patch(env, endpoint, body) ==
    Request("PATCH", buildUrl(env, endpoint), body, config(env).timeout)

getAllProducts(env) == get(env, products)
getProductById(env, id) == get(env, productById(id))
createProduct(env, productData) == post(env, products, productData)
updateProduct(env, id, productData) == put(env, productById(id), productData)
deleteProduct(env, id) == delete(env, productById(id))

\* TestContext.addCreatedProduct: a truthy ID not yet in the list is pushed
Includes(list, v) == \E i \in 1..Len(list) : StrictEquals(list[i], v)
addCreatedProduct(createdProducts, productId) ==
    IF Truthy(productId) /\ ~Includes(createdProducts, productId)
    THEN Append(createdProducts, productId)
    ELSE createdProducts

\* TestContext.clearCreatedProducts
clearCreatedProducts(createdProducts) == <<>>

\* a getCreatedProducts that hands out the list itself
getCreatedProductsAlias(createdProducts) ==
    [t |-> "array", items |-> createdProducts, ofList |-> TRUE]

\* TestContext.getCreatedProducts: [...this.createdProducts], a new array
\* with the items of the list
getCreatedProducts(createdProducts) ==
    [t |-> "array", items |-> createdProducts, ofList |-> FALSE]

(***************************************************************************)
(* testData.js: the payloads the scenarios submit                          *)
(***************************************************************************)
Payload(title, price, description, image) ==
    MkObj([title |-> title, price |-> price, description |-> Str(description),
           image |-> Str(image), category |-> Str("electronics")])

validProduct ==
    Payload(Str("Premium Wireless Headphones"), Num(29999, 2),
            "High-quality wireless headphones with noise cancellation",
            "https://fakestoreapi.com/img/headphones.jpg")
minPriceProduct ==
    Payload(Str("Test Product - Minimum Price"), Num(1, 2),
            "Testing minimum price boundary value",
            "https://fakestoreapi.com/img/test.jpg")
zeroPriceProduct ==
    Payload(Str("Free Product"), IntV(0), "Testing zero price boundary",
            "https://fakestoreapi.com/img/test.jpg")
negativePriceProduct ==
    Payload(Str("Invalid Price Product"), IntV(0 - 50),
            "Testing negative price validation",
            "https://fakestoreapi.com/img/test.jpg")
missingTitleProduct ==
    Payload(Absent, Num(9999, 2), "Missing title field",
            "https://fakestoreapi.com/img/test.jpg")
invalidPriceType ==
    Payload(Str("Test Product"), Str("invalid_price"),
            "Testing data type validation",
            "https://fakestoreapi.com/img/test.jpg")
updateProductData ==
    Payload(Str("Updated Product Name"), Num(15999, 2),
            "Updated product description with new features",
            "https://fakestoreapi.com/img/updated.jpg")
partialUpdate ==
    Payload(Str("Partially Updated Product"), Num(8999, 2),
            "Only updating some fields",
            "https://fakestoreapi.com/img/partial.jpg")

\* the price points of the data-driven POST scenarios
pricePoints == <<Num(1, 2), Num(999, 2), Num(9999, 2), Num(99999, 2)>>

\* the IDs of the data-driven GET scenarios
testIds == <<IntV(1), IntV(5), IntV(10), IntV(15), IntV(20)>>

\* the other generators of testDataGenerator the scenarios call
generateNegativePriceProduct(rnd) ==
    generateProductData(Obj([price |-> IntV(0 - 50)]), rnd)
generateEmptyStringProduct(field, rnd) ==
    generateProductData(Obj([f \in {field} |-> Str("")]), rnd)
generateLongStringProduct(field, rnd) ==
    generateProductData(
        Obj([f \in {field} |-> Str(generateRandomString(1000, rnd.long))]), rnd)

(***************************************************************************)
(* The scenarios of the four suites.  The body of a scenario is the        *)
(* sequence of statements its continuation runs on the response, the       *)
(* frisby expectations chained before .then() first; a statement that      *)
(* tracks a product carries the ID it passes to addCreatedProduct.         *)
(***************************************************************************)
\* expect(array).toContain(value)
ToContain(items, v) == \E i \in 1..Len(items) : StrictEquals(items[i], v)

\* testContext.addCreatedProduct(product.id)
Track(product) ==
    [label |-> "addCreatedProduct", ok |-> ~ReadThrows(product),
     track |-> Get(product, "id")]

\* .expect('status', code)
ExpectStatus(res, code) == Stmt("expect('status')", ObjectIs(res.status, code))

\* expect(product.key).toBe(value)
FieldToBe(product, key, value) ==
    Stmt("expect(" \o key \o ").toBe",
         ~ReadThrows(product) /\ ObjectIs(Get(product, key), value))

ToHaveId(product) == Stmt("toHaveProperty id", HasProperty(product, "id"))

\* res.status === statusCodes.OK || res.status === statusCodes.CREATED
Accepted(res) ==
    StrictEquals(res.status, statusCodes.OK)
        \/ StrictEquals(res.status, statusCodes.CREATED)

StatusIn(res, codes) == Stmt("expect(codes).toContain(status)", ToContain(codes, res.status))
StatusAtLeast400(res) ==
    Stmt("expect(status).toBeGreaterThanOrEqual(400)",
         ToBeGreaterThanOrEqual(res.status, IntV(400)))

OkOrCreated == <<statusCodes.OK, statusCodes.CREATED>>
BadRequestOrUnprocessable == <<statusCodes.BAD_REQUEST, statusCodes.UNPROCESSABLE_ENTITY>>
BadRequestOrNotFound == <<statusCodes.BAD_REQUEST, statusCodes.NOT_FOUND>>

\* ---- POST /products ----
\* the expectations of POST-001 before the product is tracked
POST001Expectations(res, productData) ==
    <<StatusIn(res, OkOrCreated),
      ToHaveId(res.json),
      Stmt("typeof id toBe number",
           ~ReadThrows(res.json) /\ TypeOfJs(Get(res.json, "id")) = "number"),
      Stmt("id toBeGreaterThan 0", ToBeGreaterThan(Get(res.json, "id"), IntV(0)))>>
    \o validateProductMatchesSubmittedData(res.json, productData)
    \o assertRequiredFields(res.json,
            <<"id", "title", "price", "description", "image", "category">>)

POST001(res, productData, ctx) ==
    POST001Expectations(res, productData) \o <<Track(res.json)>>

\* the expectations of POST-002 before the product is tracked
POST002Expectations(res) ==
    <<StatusIn(res, OkOrCreated),
      FieldToBe(res.json, "price", Num(1, 2)),
      ToHaveId(res.json),
      Stmt("price.toFixed(2) toBe '0.01'", ObjectIs(Get(res.json, "price"), Num(1, 2)))>>

\* a POST-002 that also asserts on the shared tracking list
POST002ReadsList(res, ctx) ==
    POST002Expectations(res)
    \o <<Stmt("expect(getCreatedProducts()).not.toContain(id)",
              ~Includes(getCreatedProducts(ctx.createdProducts).items,
                        Get(res.json, "id"))),
         Track(res.json)>>

POST002(res, ctx) == POST002Expectations(res) \o <<Track(res.json)>>

\* a POST-003 that takes any accepted response as it is
POST003AcceptsAny(res) ==
    IF Accepted(res) THEN <<>> ELSE <<StatusIn(res, BadRequestOrUnprocessable)>>

POST003(res) ==
    IF Accepted(res) THEN <<ToHaveId(res.json)>>
    ELSE <<StatusIn(res, BadRequestOrUnprocessable)>>

POST004(res) ==
    IF Accepted(res) THEN <<ToHaveId(res.json)>>
    ELSE <<StatusIn(res, BadRequestOrUnprocessable)>>

POSTGenerated(res, productData, ctx) ==
    <<StatusIn(res, OkOrCreated),
      ToHaveId(res.json),
      FieldToBe(res.json, "title", Get(productData, "title")),
      FieldToBe(res.json, "price", Get(productData, "price")),
      FieldToBe(res.json, "category", Get(productData, "category")),
      Track(res.json)>>

\* a zero-price scenario that expects the rejection only
POSTZeroPriceRejected(res) == <<StatusAtLeast400(res)>>

POSTZeroPrice(res) ==
    IF Accepted(res) THEN <<FieldToBe(res.json, "price", IntV(0))>>
    ELSE <<StatusAtLeast400(res)>>

POSTNegativePrice(res) ==
    IF Accepted(res) THEN <<>> ELSE <<StatusAtLeast400(res)>>

POSTEmptyTitle(res) ==
    IF Accepted(res) THEN <<>> ELSE <<StatusIn(res, BadRequestOrUnprocessable)>>

POSTCategory(res, category, ctx) ==
    <<StatusIn(res, OkOrCreated),
      FieldToBe(res.json, "category", category),
      Track(res.json)>>

POSTPrice(res, value) ==
    <<StatusIn(res, OkOrCreated), FieldToBe(res.json, "price", value)>>

\* createdProducts.forEach(product => { expect...; addCreatedProduct })
RECURSIVE TrackEach(_, _)
TrackEach(createdProducts, i) ==
    IF i > Len(createdProducts) THEN <<>>
    ELSE <<ToHaveId(createdProducts[i]), Track(createdProducts[i])>>
            \o TrackEach(createdProducts, i + 1)

\* the continuation of Promise.all(promises)
POSTMultiple(createdProducts, ctx) ==
    <<Stmt("expect(length).toBe(3)", Len(createdProducts) = 3)>>
        \o TrackEach(createdProducts, 1)

POSTContentType(res) == assertContentType(res, "application/json")

POSTLongTitle(res) ==
    IF Accepted(res) THEN <<ToHaveId(res.json)>> ELSE <<>>

\* ---- PUT /products/{id} ----
PUT001(res, productId, updateData) ==
    <<ExpectStatus(res, statusCodes.OK), FieldToBe(res.json, "id", productId)>>
    \o validateProductMatchesSubmittedData(res.json, updateData)

PUT002(res) ==
    IF StrictEquals(res.status, statusCodes.OK) THEN <<ToHaveId(res.json)>>
    ELSE <<>>

PUT003(res) ==
    IF StrictEquals(res.status, statusCodes.OK)
    THEN <<FieldToBe(res.json, "price", IntV(0))>>
    ELSE <<StatusAtLeast400(res)>>

PUT004(res) ==
    IF StrictEquals(res.status, statusCodes.OK) THEN <<>>
    ELSE <<StatusIn(res, BadRequestOrUnprocessable)>>

PUTPartial(res, productId, update) ==
    <<ExpectStatus(res, statusCodes.OK),
      FieldToBe(res.json, "id", productId),
      FieldToBe(res.json, "title", Get(update, "title")),
      FieldToBe(res.json, "price", Get(update, "price"))>>

PUTGenerated(res, productId, updateData) ==
    <<ExpectStatus(res, statusCodes.OK),
      FieldToBe(res.json, "id", productId),
      FieldToBe(res.json, "title", Get(updateData, "title")),
      FieldToBe(res.json, "price", Get(updateData, "price"))>>

PUTMultiple(res, title) ==
    <<ExpectStatus(res, statusCodes.OK), FieldToBe(res.json, "title", Str(title))>>

\* ---- DELETE /products/{id} ----
ToBeDefined(v) == Stmt("toBeDefined", v # Undefined)

DELETE001(res) ==
    <<ExpectStatus(res, statusCodes.OK), ToBeDefined(res.json)>>
    \o (IF Truthy(res.json) THEN <<ToHaveId(res.json)>> ELSE <<>>)

DELETE002(res) == <<ToBeDefined(res.status)>>

DELETE003(res, boundaryIds) ==
    <<ExpectStatus(res, statusCodes.OK), ToBeDefined(res.json)>>
    \o (IF Truthy(res.json) /\ Truthy(Get(res.json, "id"))
        THEN <<FieldToBe(res.json, "id", Get(boundaryIds, "min"))>>
        ELSE <<>>)

DELETE004(res) == <<StatusIn(res, BadRequestOrNotFound)>>

DELETEMax(res) == <<ExpectStatus(res, statusCodes.OK), ToBeDefined(res.json)>>

DELETEZero(res) ==
    IF StrictEquals(res.status, statusCodes.OK) THEN <<>>
    ELSE <<StatusIn(res, BadRequestOrNotFound)>>

DELETENegative(res) == <<StatusIn(res, BadRequestOrNotFound)>>

DELETESpecial(res) == <<StatusIn(res, BadRequestOrNotFound)>>

DELETEIdempotentFirst(res) == <<ExpectStatus(res, statusCodes.OK)>>

\* a second delete that asserts no more than DELETE-002 does
DELETEIdempotentSecondAny(res) == <<ToBeDefined(res.status)>>

DELETEIdempotentSecond(res) ==
    <<StatusIn(res, <<statusCodes.OK, statusCodes.NOT_FOUND>>)>>

\* ---- GET /products/{id} ----
\* .expect('header', 'content-type', /json/)
ExpectJsonHeader(res) ==
    Stmt("expect('header')", res.contentType.t = "string" /\ Contains(res.contentType.s, "json"))

GET001(res, productId) ==
    LET product == res.json
        rating == Get(product, "rating")
    IN  <<ExpectStatus(res, statusCodes.OK), ExpectJsonHeader(res)>>
        \o assertProductStructure(product, TRUE)
        \o <<FieldToBe(product, "id", productId)>>
        \o assertRequiredFields(product,
              <<"id", "title", "price", "description", "category", "image", "rating">>)
        \o assertFieldType(product, "id", "number")
        \o assertFieldType(product, "title", "string")
        \o assertFieldType(product, "price", "number")
        \o assertFieldType(product, "description", "string")
        \o assertFieldType(product, "category", "string")
        \o assertFieldType(product, "image", "string")
        \o assertFieldType(product, "rating", "object")
        \o <<Stmt("price toBeGreaterThan 0",
                  ToBeGreaterThan(Get(product, "price"), IntV(0)))>>
        \o assertStringNotEmpty(Get(product, "title"))
        \o assertStringNotEmpty(Get(product, "description"))
        \o assertStringNotEmpty(Get(product, "category"))
        \o assertStringNotEmpty(Get(product, "image"))
        \o <<Stmt("toHaveProperty rate", HasProperty(rating, "rate")),
             Stmt("toHaveProperty count", HasProperty(rating, "count"))>>
        \o assertInRange(Get(rating, "rate"), IntV(0), IntV(5))
        \o <<Stmt("count toBeGreaterThanOrEqual 0",
                  ToBeGreaterThanOrEqual(Get(rating, "count"), IntV(0))),
             Stmt("expect(error).toBeUndefined",
                  validateSchema(product, schemas("product")).error = <<>>)>>

\* GET-002 and GET-003: the product at a boundary of the valid range
GETBoundary(res, id, rangeId) ==
    <<ExpectStatus(res, statusCodes.OK),
      ToBeDefined(res.json),
      Stmt("not.toBeNull", res.json # Null),
      FieldToBe(res.json, "id", id)>>
    \o assertProductStructure(res.json, TRUE)
    \o <<FieldToBe(res.json, "id", rangeId)>>

GET002(res) ==
    GETBoundary(res, Get(getBoundaryProductIds, "min"), Get(validProductRange, "min"))
GET003(res) ==
    GETBoundary(res, Get(getBoundaryProductIds, "max"), Get(validProductRange, "max"))

GET004(res) ==
    (IF StrictEquals(res.status, statusCodes.OK)
     THEN <<Stmt("expect(json).toBeNull", res.json = Null)>>
     ELSE <<Stmt("expect(status).toBe(404)", ObjectIs(res.status, statusCodes.NOT_FOUND))>>)
    \o <<Stmt("expect(status).toBeLessThan(500)", ToBeLessThan(res.status, IntV(500)))>>

\* products.forEach(product => ...): the statements run for each product
RECURSIVE Flatten(_, _)
Flatten(runs, i) ==
    IF i > Len(runs) THEN <<>> ELSE runs[i] \o Flatten(runs, i + 1)
ForEachProduct(items, Check(_)) ==
    Flatten([i \in 1..Len(items) |-> Check(items[i])], 1)

GETAll(res) ==
    LET all == res.json
        HasFields(product) ==
            <<ToHaveId(product),
              Stmt("toHaveProperty title", HasProperty(product, "title")),
              Stmt("toHaveProperty price", HasProperty(product, "price"))>>
    IN  <<ExpectStatus(res, statusCodes.OK),
          Stmt("Array.isArray toBe true", IsArray(all))>>
        \o assertArrayNotEmpty(all, IntV(1))
        \o <<Stmt("length toBeGreaterThanOrEqual 20",
                  ToBeGreaterThanOrEqual(LengthOf(all), IntV(20)))>>
        \o (IF IsArray(all) /\ Len(all.items) > 0
            THEN assertProductStructure(all.items[1], TRUE)
                    \o ForEachProduct(all.items, HasFields)
            ELSE <<>>)

GETContentType(res) ==
    <<ExpectStatus(res, statusCodes.OK)>> \o assertContentType(res, "application/json")

\* a data-driven scenario that asserts the status only
GETByIdStatusOnly(res, productId) == <<ExpectStatus(res, statusCodes.OK)>>

GETById(res, productId) ==
    <<ExpectStatus(res, statusCodes.OK), FieldToBe(res.json, "id", productId)>>
    \o assertProductStructure(res.json, TRUE)

GETCategories(res, validCategories) ==
    LET CategoryValid(product) ==
            <<Stmt("expect(validCategories).toContain(category)",
                   ~ReadThrows(product)
                     /\ ToContain(validCategories, Get(product, "category")))>>
    IN  <<ExpectStatus(res, statusCodes.OK),
          Stmt("products.forEach", IsArray(res.json))>>
        \o (IF IsArray(res.json)
            THEN ForEachProduct(res.json.items, CategoryValid) ELSE <<>>)

GETPrices(res) ==
    LET PriceValid(product) ==
            <<Stmt("price toBeGreaterThan 0",
                   ~ReadThrows(product) /\ ToBeGreaterThan(Get(product, "price"), IntV(0))),
              Stmt("price toBeLessThan 10000",
                   ~ReadThrows(product) /\ ToBeLessThan(Get(product, "price"), IntV(10000)))>>
    IN  <<ExpectStatus(res, statusCodes.OK),
          Stmt("products.forEach", IsArray(res.json))>>
        \o (IF IsArray(res.json)
            THEN ForEachProduct(res.json.items, PriceValid) ELSE <<>>)

\* responseTime is Date.now() - startTime, the latency of the response
GETResponseTime(res) ==
    <<ExpectStatus(res, statusCodes.OK),
      Stmt("expect(responseTime).toBeLessThan(3000)",
           ToBeLessThan(res.latency, IntV(3000))),
      ToBeDefined(res.json)>>

(***************************************************************************)
(* The suites: which scenarios each holds, the client calls a scenario     *)
(* makes at each stage (a stage is the requests issued together and        *)
(* awaited together) and the statements run once the stage's requests      *)
(* have all resolved.                                                      *)
(***************************************************************************)
SuiteNames == {"GET", "POST", "PUT", "DELETE"}

\* the suites with a beforeAll(setupTestSuite) and an afterAll(teardownTestSuite)
HasHooks(s) == s \in {"GET", "POST"}

\* the scenarios of a suite, in the order of the file
ScenarioOrder(s) ==
    CASE s = "GET" ->
            <<"GET-001", "GET-002", "GET-003", "GET-004", "GET-all",
             "GET-content-type", "GET-id-1", "GET-id-2", "GET-id-3", "GET-id-4",
             "GET-id-5", "GET-categories", "GET-prices", "GET-response-time">>
      [] s = "POST" ->
            <<"POST-001", "POST-002", "POST-003", "POST-004", "POST-generated",
             "POST-zero-price", "POST-negative-price", "POST-empty-title",
             "POST-category-1", "POST-category-2", "POST-category-3",
             "POST-category-4", "POST-price-1", "POST-price-2", "POST-price-3",
             "POST-price-4", "POST-multiple", "POST-content-type",
             "POST-long-title">>
      [] s = "PUT" ->
            <<"PUT-001", "PUT-002", "PUT-003", "PUT-004", "PUT-partial",
             "PUT-generated", "PUT-multiple">>
      [] s = "DELETE" ->
            <<"DELETE-001", "DELETE-002", "DELETE-003", "DELETE-004", "DELETE-max",
             "DELETE-zero", "DELETE-negative", "DELETE-special",
             "DELETE-idempotent">>

ScenariosOf(s) == {ScenarioOrder(s)[i] : i \in 1..Len(ScenarioOrder(s))}

\* the place of a scenario in its file
PlaceOf(s, id) == CHOOSE i \in 1..Len(ScenarioOrder(s)) : ScenarioOrder(s)[i] = id

\* the index of a data-driven scenario: the last character of its name
IndexOf(id) == DigitVal(Last(id)) 

\* the draws of Math.random() a scenario's generators consume
ScenarioRnd ==
    [title |-> [i \in 1..5 |-> 0], price |-> 0,
     description |-> [i \in 1..20 |-> 0], category |-> 0,
     long |-> [i \in 1..1000 |-> 0], id |-> 0]

\* the product of the long-title scenario
longProduct == generateLongStringProduct("title", ScenarioRnd)

\* the payload a POST or PUT scenario submits
ProductDataOf(id) ==
    CASE id = "POST-001" -> validProduct
      [] id = "POST-002" -> minPriceProduct
      [] id = "POST-003" -> missingTitleProduct
      [] id = "POST-004" -> invalidPriceType
      [] id \in {"POST-generated", "POST-content-type", "PUT-generated"} ->
            generateProductData(Undefined, ScenarioRnd)
      [] id \in {"POST-zero-price", "PUT-003"} -> zeroPriceProduct
      [] id = "POST-negative-price" -> generateNegativePriceProduct(ScenarioRnd)
      [] id = "POST-empty-title" -> generateEmptyStringProduct("title", ScenarioRnd)
      [] id \in {"POST-category-1", "POST-category-2", "POST-category-3",
                 "POST-category-4"} ->
            generateProductData(Obj([category |-> categories[IndexOf(id)]]), ScenarioRnd)
      [] id \in {"POST-price-1", "POST-price-2", "POST-price-3", "POST-price-4"} ->
            generateProductData(Obj([price |-> pricePoints[IndexOf(id)]]), ScenarioRnd)
      [] id = "POST-long-title" -> longProduct
      [] id = "PUT-001" -> updateProductData
      [] id = "PUT-002" ->
            generateProductData(
                Obj([title |-> Str("Should Fail"), price |-> Num(9999, 2)]), ScenarioRnd)
      [] id = "PUT-004" -> negativePriceProduct
      [] id = "PUT-partial" -> partialUpdate

\* the three payloads of the create-multiple scenario
MultipleProducts ==
    <<generateProductData(Obj([category |-> Str("electronics")]), ScenarioRnd),
      generateProductData(Obj([category |-> Str("jewelery")]), ScenarioRnd),
      generateProductData(Obj([category |-> Str("men's clothing")]), ScenarioRnd)>>

\* the product ID a GET, PUT or DELETE scenario addresses
ProductIdOf(id) ==
    CASE id = "GET-001" -> IntV(1)
      [] id \in {"GET-002", "DELETE-003"} -> Get(getBoundaryProductIds, "min")
      [] id \in {"GET-003", "DELETE-max"} -> Get(getBoundaryProductIds, "max")
      [] id = "GET-004" -> getInvalidProductId(ScenarioRnd.id)
      [] id \in {"GET-content-type", "GET-response-time", "PUT-generated"} ->
            getValidProductId(ScenarioRnd.id)
      [] id \in {"GET-id-1", "GET-id-2", "GET-id-3", "GET-id-4", "GET-id-5"} ->
            testIds[IndexOf(id)]
      [] id = "PUT-001" -> IntV(5)
      [] id = "PUT-002" -> IntV(999)
      [] id = "PUT-003" -> IntV(3)
      [] id = "PUT-004" -> IntV(7)
      [] id = "PUT-partial" -> IntV(8)
      [] id = "PUT-multiple" -> IntV(10)
      [] id = "DELETE-001" -> IntV(6)
      [] id = "DELETE-002" -> IntV(5000)
      [] id = "DELETE-004" -> Str("abc")
      [] id = "DELETE-zero" -> IntV(0)
      [] id = "DELETE-negative" -> IntV(0 - 1)
      [] id = "DELETE-special" -> Str("!@#$")
      [] id = "DELETE-idempotent" -> IntV(15)

\* a call of a method of apiClient
ClientCall(op, productId, body) == [op |-> op, id |-> productId, body |-> body]

\* the titles of the two updates of the multiple-updates scenario
UpdateTitle(st) == IF st = 1 THEN "First Update" ELSE "Second Update"

StageCount(id) == IF id \in {"PUT-multiple", "DELETE-idempotent"} THEN 2 ELSE 1

\* the client calls a scenario makes at a st, in order
StageCalls(id, st) ==
    CASE id \in {"GET-all", "GET-categories", "GET-prices"} ->
            <<ClientCall("getAllProducts", NoValue, NoValue)>>
      [] id \in ScenariosOf("GET") \ {"GET-all", "GET-categories", "GET-prices"} ->
            <<ClientCall("getProductById", ProductIdOf(id), NoValue)>>
      [] id = "POST-multiple" ->
            [i \in 1..Len(MultipleProducts) |->
                ClientCall("createProduct", NoValue, MultipleProducts[i])]
      [] id \in ScenariosOf("POST") \ {"POST-multiple"} ->
            <<ClientCall("createProduct", NoValue, ProductDataOf(id))>>
      [] id = "PUT-multiple" ->
            <<ClientCall("updateProduct", ProductIdOf(id),
                generateProductData(Obj([title |-> Str(UpdateTitle(st))]),
                                    ScenarioRnd))>>
      [] id \in ScenariosOf("PUT") \ {"PUT-multiple"} ->
            <<ClientCall("updateProduct", ProductIdOf(id), ProductDataOf(id))>>
      [] id \in ScenariosOf("DELETE") ->
            <<ClientCall("deleteProduct", ProductIdOf(id), NoValue)>>

\* the request a client call issues
Perform(env, c) ==
    CASE c.op = "getAllProducts" -> getAllProducts(env)
      [] c.op = "getProductById" -> getProductById(env, c.id)
      [] c.op = "createProduct" -> createProduct(env, c.body)
      [] c.op = "updateProduct" -> updateProduct(env, c.id, c.body)
      [] c.op = "deleteProduct" -> deleteProduct(env, c.id)

\* the statements a scenario runs on the responses of a st
StageBody(id, st, rs, ctx) ==
    LET res == rs[1] IN
    CASE id = "GET-001" -> GET001(res, ProductIdOf(id))
      [] id = "GET-002" -> GET002(res)
      [] id = "GET-003" -> GET003(res)
      [] id = "GET-004" -> GET004(res)
      [] id = "GET-all" -> GETAll(res)
      [] id = "GET-content-type" -> GETContentType(res)
      [] id \in {"GET-id-1", "GET-id-2", "GET-id-3", "GET-id-4", "GET-id-5"} ->
            GETById(res, ProductIdOf(id))
      [] id = "GET-categories" -> GETCategories(res, categories)
      [] id = "GET-prices" -> GETPrices(res)
      [] id = "GET-response-time" -> GETResponseTime(res)
      [] id = "POST-001" -> POST001(res, ProductDataOf(id), ctx)
      [] id = "POST-002" -> POST002(res, ctx)
      [] id = "POST-003" -> POST003(res)
      [] id = "POST-004" -> POST004(res)
      [] id = "POST-generated" -> POSTGenerated(res, ProductDataOf(id), ctx)
      [] id = "POST-zero-price" -> POSTZeroPrice(res)
      [] id = "POST-negative-price" -> POSTNegativePrice(res)
      [] id = "POST-empty-title" -> POSTEmptyTitle(res)
      [] id \in {"POST-category-1", "POST-category-2", "POST-category-3",
                 "POST-category-4"} ->
            POSTCategory(res, categories[IndexOf(id)], ctx)
      [] id \in {"POST-price-1", "POST-price-2", "POST-price-3", "POST-price-4"} ->
            POSTPrice(res, pricePoints[IndexOf(id)])
      [] id = "POST-multiple" ->
            POSTMultiple([i \in 1..Len(rs) |-> rs[i].json], ctx)
      [] id = "POST-content-type" -> POSTContentType(res)
      [] id = "POST-long-title" -> POSTLongTitle(res)
      [] id = "PUT-001" -> PUT001(res, ProductIdOf(id), ProductDataOf(id))
      [] id = "PUT-002" -> PUT002(res)
      [] id = "PUT-003" -> PUT003(res)
      [] id = "PUT-004" -> PUT004(res)
      [] id = "PUT-partial" -> PUTPartial(res, ProductIdOf(id), ProductDataOf(id))
      [] id = "PUT-generated" -> PUTGenerated(res, ProductIdOf(id), ProductDataOf(id))
      [] id = "PUT-multiple" -> PUTMultiple(res, UpdateTitle(st))
      [] id = "DELETE-001" -> DELETE001(res)
      [] id = "DELETE-002" -> DELETE002(res)
      [] id = "DELETE-003" -> DELETE003(res, getBoundaryProductIds)
      [] id = "DELETE-004" -> DELETE004(res)
      [] id = "DELETE-max" -> DELETEMax(res)
      [] id = "DELETE-zero" -> DELETEZero(res)
      [] id = "DELETE-negative" -> DELETENegative(res)
      [] id = "DELETE-special" -> DELETESpecial(res)
      [] id = "DELETE-idempotent" ->
            IF st = 1 THEN DELETEIdempotentFirst(res)
            ELSE DELETEIdempotentSecond(res)

(***************************************************************************)
(* The call machine                                                        *)
(***************************************************************************)
Calls == SchemaCalls \cup HelperCalls \cup RangeCalls \cup StringCalls \cup MatchCalls

\* the statements of the helper called, each with whether it completes
Body(c) ==
    CASE c.fn = "validateSchema" -> <<Stmt("schema.validate", TRUE)>>
      [] c.fn = "assertSchema" -> assertSchema(c.data, schemas(c.schema))
      [] c.fn = "assertStatusCode" -> assertStatusCode(c.response, c.expectedStatus)
      [] c.fn = "assertRequiredFields" ->
            assertRequiredFields(c.responseBody, c.requiredFields)
      [] c.fn = "assertFieldType" ->
            assertFieldType(c.responseBody, c.field, c.expectedType)
      [] c.fn = "assertProductStructure" ->
            assertProductStructure(c.product, c.includeRating)
      [] c.fn = "assertProductData" -> assertProductData(c.actual, c.expected)
      [] c.fn = "assertResponseTime" -> assertResponseTime(c.response, c.maxTime)
      [] c.fn = "assertArrayNotEmpty" -> assertArrayNotEmpty(c.arr, c.minLength)
      [] c.fn = "assertContentType" -> assertContentType(c.response, c.expectedType)
      [] c.fn = "assertErrorResponse" -> assertErrorResponse(c.responseBody)
      [] c.fn = "assertInRange" -> assertInRange(c.value, c.min, c.max)
      [] c.fn = "assertStringNotEmpty" -> assertStringNotEmpty(c.str)
      [] c.fn = "validateGetResponse" ->
            validateGetResponse(c.response, c.validateProduct)
      [] c.fn = "validatePostResponse" -> validatePostResponse(c.response)
      [] c.fn = "validatePutResponse" -> validatePutResponse(c.response)
      [] c.fn = "validateDeleteResponse" -> validateDeleteResponse(c.response)
      [] c.fn = "validateErrorResponse" ->
            validateErrorResponse(c.response, c.expectedStatus)
      [] c.fn = "validateHeaders" -> validateHeaders(c.response, c.expected)
      [] c.fn = "validateProductMatchesSubmittedData" ->
            validateProductMatchesSubmittedData(c.actual, c.expected)
      [] c.fn = "validateArrayResponse" ->
            validateArrayResponse(c.response, c.minLength)
      [] c.fn \in {"getValidProductId", "getInvalidProductId", "getBoundaryProductIds",
                   "getNonNumericProductId", "generateProductData"} ->
            <<Stmt("return", TRUE)>>

\* what the call returns once its body has run to its end
RetOf(c) ==
    CASE c.fn = "validateSchema" -> validateSchema(c.data, schemas(c.schema))
      [] c.fn = "getValidProductId" -> getValidProductId(c.m)
      [] c.fn = "getInvalidProductId" -> getInvalidProductId(c.m)
      [] c.fn = "getBoundaryProductIds" -> getBoundaryProductIds
      [] c.fn = "getNonNumericProductId" -> getNonNumericProductId(c.draws)
      [] c.fn = "generateProductData" -> generateProductData(c.overrides, Rnd(c.rnd))
      [] OTHER -> Undefined

\* TestContext: constructor
NewTestContext ==
    [createdProducts |-> <<>>, testStartTime |-> Null, testEndTime |-> Null]

NoWrite == [op |-> "none", by |-> "none", pending |-> 0]

\* a caller of the context that has called nothing yet: the IDs it
\* offered since the last clear, the array it holds, the count last
\* logged, the value last returned and the time of that return, the time
\* of the last startTimer
NoCaller ==
    [op |-> "none", offered |-> <<>>, held |-> NoValue, pushed |-> FALSE,
     logged |-> NoValue, returned |-> 0, at |-> 0, started |-> NoValue]

\* nothing loaded, no retry under way, no caller of the context
Unloaded ==
    [environment |-> "unloaded", env |-> "", config |-> [t |-> "none"],
     apiClient |-> "unloaded", baseURL |-> [t |-> "none"],
     jestSetup |-> "unloaded", timeout |-> [t |-> "none"]]
IdleUnits ==
    /\ NODE_ENV = [t |-> "undefined"]
    /\ modules = Unloaded
    /\ retry = [pc |-> "idle"]
    /\ caller = NoCaller

IdleSuite ==
    /\ currentEnv = "development"
    /\ suite = "none"
    /\ suitesRun = {}
    /\ position = 0
    /\ scenario = "none"
    /\ stage = 0
    /\ requests = <<>>
    /\ verdict = "none"
    /\ testContext = NewTestContext
    /\ clock = 0
    /\ lastWrite = NoWrite

Init ==
    /\ call \in Calls
    /\ pc = "running"
    /\ step = 1
    /\ executed = <<>>
    /\ ret = NoValue
    /\ IdleSuite
    /\ IdleUnits

\* a helper that caught what its statements raise would run on
StepSwallow ==
    /\ pc = "running"
    /\ step <= Len(Body(call))
    /\ executed' = Append(executed, Body(call)[step].label)
    /\ step' = step + 1
    /\ pc' = pc
    /\ UNCHANGED <<call, ret, suiteVars, unitVars>>

\* the next statement runs; one that fails raises out of the helper
Step ==
    /\ pc = "running"
    /\ step <= Len(Body(call))
    /\ executed' = Append(executed, Body(call)[step].label)
    /\ IF Body(call)[step].ok
       THEN step' = step + 1 /\ pc' = pc
       ELSE step' = step /\ pc' = "thrown"
    /\ UNCHANGED <<call, ret, suiteVars, unitVars>>

\* the body ran to its end: the call returns
Return ==
    /\ pc = "running"
    /\ step > Len(Body(call))
    /\ pc' = "returned"
    /\ ret' = RetOf(call)
    /\ UNCHANGED <<call, step, executed, suiteVars, unitVars>>

Next == Step \/ Return

Spec == Init /\ [][Next]_vars

\* the generators: a call of a generator with its random draw
InitGen ==
    /\ call \in GeneratorCalls
    /\ pc = "running"
    /\ step = 1
    /\ executed = <<>>
    /\ ret = NoValue
    /\ IdleSuite
    /\ IdleUnits

SpecGen == InitGen /\ [][Next]_vars

(***************************************************************************)
(* Responses of the remote service                                         *)
(***************************************************************************)
JsonType == Str("application/json; charset=utf-8")

Arrived(status, contentType, json, latency) ==
    [status |-> status, contentType |-> contentType, json |-> json,
     fetchRes |-> Obj([elapsedTime |-> latency]), latency |-> latency]

WithId(body, id) ==
    Obj([k \in DOMAIN body.f \cup {"id"} |-> IF k = "id" THEN id ELSE body.f[k]])

StoredProduct(id) ==
    Product(id, Str("a"), Num(1, 2), Str("http://a"), Rating(IntV(5), IntV(120)), Absent)

\* what the service answers when it serves the call as asked
Served(c) ==
    CASE c.op = "getAllProducts" -> Arr([i \in 1..20 |-> StoredProduct(IntV(i))])
      [] c.op \in {"getProductById", "deleteProduct"} -> StoredProduct(c.id)
      [] c.op = "createProduct" -> WithId(c.body, IntV(21))
      [] c.op = "updateProduct" -> WithId(c.body, c.id)

ErrorJson == Obj([message |-> Str("m")])

\* the answers a call may get: served, an empty or a null body with a
\* success status, an error status, a wrong content type, a late answer
ResponsesTo(c) ==
    {Arrived(st, JsonType, Served(c), IntV(120)) :
        st \in {statusCodes.OK, statusCodes.CREATED}}
    \cup {Arrived(statusCodes.OK, JsonType, j, IntV(120)) : j \in {Obj(<<>>), Null}}
    \cup {Arrived(st, JsonType, ErrorJson, IntV(120)) :
            st \in {statusCodes.BAD_REQUEST, statusCodes.NOT_FOUND,
                    statusCodes.UNPROCESSABLE_ENTITY,
                    statusCodes.INTERNAL_SERVER_ERROR}}
    \cup {Arrived(statusCodes.OK, Str("text/html"), Served(c), IntV(120)),
          Arrived(statusCodes.OK, JsonType, Served(c), IntV(3000))}

\* products served with a success status that are not what was asked for:
\* a price of 0, an empty title, a rating out of range, another product
Defective(c) ==
    {Product(c.id, Str("a"), IntV(0), Str("http://a"), Rating(IntV(5), IntV(120)), Absent),
     Product(c.id, Str(""), Num(1, 2), Str("http://a"), Rating(IntV(5), IntV(120)), Absent),
     Product(c.id, Str("a"), Num(1, 2), Str("http://a"), Rating(IntV(9), IntV(0 - 1)), Absent),
     Product(IntV(21), Str("a"), Num(1, 2), Str("http://a"), Rating(IntV(5), IntV(120)), Absent)}

\* the answers to the call of a scenario: the requests issued together get
\* fewer answers each, a GET by ID gets the defective products as well, a
\* POST or PUT the submitted data echoed without an id
ResponsesFor(id, c) ==
    CASE id = "POST-multiple" ->
            {Arrived(statusCodes.OK, JsonType, Served(c), IntV(120)),
             Arrived(statusCodes.OK, JsonType, Obj(<<>>), IntV(120)),
             Arrived(statusCodes.INTERNAL_SERVER_ERROR, JsonType, ErrorJson, IntV(120))}
      [] c.op = "getProductById" /\ c.id \in {IntV(i) : i \in 1..20} ->
            ResponsesTo(c)
                \cup {Arrived(statusCodes.OK, JsonType, j, IntV(120)) : j \in Defective(c)}
      [] c.op \in {"createProduct", "updateProduct"} /\ c.body.t = "object" ->
            ResponsesTo(c)
                \cup {Arrived(st, JsonType, c.body, IntV(120)) :
                        st \in {statusCodes.OK, statusCodes.CREATED}}
      [] OTHER -> ResponsesTo(c)

(***************************************************************************)
(* The suite machine                                                       *)
(***************************************************************************)
\* the suites of one run
MaxSuites == 2

startTimer(ctx, now) == [ctx EXCEPT !.testStartTime = IntV(now)]
stopTimer(ctx, now) == [ctx EXCEPT !.testEndTime = IntV(now)]

setupTestSuite(ctx, now) == startTimer(ctx, now)

\* a teardown that forgot to clear the list
teardownTestSuiteKeepsList(ctx, now) == stopTimer(ctx, now)

teardownTestSuite(ctx, now) ==
    [stopTimer(ctx, now) EXCEPT
        !.createdProducts = clearCreatedProducts(@)]

\* one call of apiClient: the request it issued and what became of it
Entry(c, st) ==
    [call |-> c, request |-> Perform(currentEnv, c), stage |-> st, state |-> "pending",
     res |-> NoValue, attempts |-> 1]

Entries(id, st) == [i \in 1..Len(StageCalls(id, st)) |-> Entry(StageCalls(id, st)[i], st)]

Pending(reqs) == {k \in 1..Len(reqs) : reqs[k].state = "pending"}

\* the responses of the requests of a stage, in the order of the calls
StageResponses(reqs, st) ==
    LET of == SelectSeq(reqs, LAMBDA e : e.stage = st)
    IN  [i \in 1..Len(of) |-> of[i].res]

\* the statements of a body that run: all of them, or those up to the first
\* that raises
Ran(stmts) ==
    LET raising == {i \in 1..Len(stmts) : ~stmts[i].ok}
    IN  IF raising = {} THEN stmts
        ELSE SubSeq(stmts, 1, CHOOSE i \in raising : \A j \in raising : i <= j)

\* the tracking list after the addCreatedProduct calls among ran[i..]
RECURSIVE TrackAll(_, _, _)
TrackAll(list, ran, i) ==
    IF i > Len(ran) THEN list
    ELSE TrackAll(IF "track" \in DOMAIN ran[i] /\ ran[i].ok
                  THEN addCreatedProduct(list, ran[i].track) ELSE list,
                  ran, i + 1)

\* a body run against the tracking list, after the statements labelled
\* labels
RunStatements(stmts, list, labels) ==
    LET ran == Ran(stmts)
        tracked == SelectSeq(ran, LAMBDA st : "track" \in DOMAIN st)
    IN  [ok |-> \A i \in 1..Len(stmts) : stmts[i].ok,
         list |-> TrackAll(list, tracked, 1),
         labels |-> labels \o [i \in 1..Len(ran) |-> ran[i].label]]

Tracks(labels) == \E i \in 1..Len(labels) : labels[i] = "addCreatedProduct"

IdleCall ==
    /\ call = [fn |-> "none"]
    /\ pc = "idle"
    /\ step = 1
    /\ executed = <<>>
    /\ ret = NoValue

InitSuite ==
    /\ IdleCall
    /\ IdleUnits
    /\ currentEnv \in Profiles
    /\ suite = "none"
    /\ suitesRun = {}
    /\ position = 0
    /\ scenario = "none"
    /\ stage = 0
    /\ requests = <<>>
    /\ verdict = "none"
    /\ testContext = NewTestContext
    /\ clock = 0
    /\ lastWrite = NoWrite

\* a suite whose beforeAll hook clears the list as well
StartSuiteClears(s) ==
    /\ pc = "idle"
    /\ suite = "none"
    /\ s \notin suitesRun
    /\ Cardinality(suitesRun) < MaxSuites
    /\ suite' = s
    /\ testContext' =
          IF HasHooks(s)
          THEN [setupTestSuite(testContext, clock) EXCEPT
                   !.createdProducts = clearCreatedProducts(@)]
          ELSE testContext
    /\ lastWrite' = IF HasHooks(s)
                    THEN [op |-> "clear", by |-> "beforeAll", pending |-> 0]
                    ELSE lastWrite
    /\ UNCHANGED <<unitVars, callVars, currentEnv, suitesRun, position, scenario, stage,
                   requests, verdict, clock>>

\* a suite starts: its beforeAll hook runs
StartSuite(s) ==
    /\ pc = "idle"
    /\ suite = "none"
    /\ s \notin suitesRun
    /\ Cardinality(suitesRun) < MaxSuites
    /\ suite' = s
    /\ testContext' = IF HasHooks(s) THEN setupTestSuite(testContext, clock)
                      ELSE testContext
    /\ UNCHANGED <<unitVars, callVars, currentEnv, suitesRun, position, scenario, stage, requests,
                   verdict, clock, lastWrite>>

\* a scenario starts, any of those that follow the last one in the file (a
\* run may filter scenarios out): it issues the requests of its first stage
StartScenario(id) ==
    /\ suite # "none"
    /\ verdict # "running"
    /\ id \in ScenariosOf(suite)
    /\ PlaceOf(suite, id) > position
    /\ scenario' = id
    /\ position' = PlaceOf(suite, id)
    /\ stage' = 1
    /\ requests' = Entries(id, 1)
    /\ verdict' = "running"
    /\ executed' = <<>>
    /\ UNCHANGED <<unitVars, call, pc, step, ret, currentEnv, suite, suitesRun, testContext,
                   clock, lastWrite>>

\* a response arrives and is tracked at once, the others still pending
ResolveAndTrack(k, r) ==
    /\ suite # "none"
    /\ k \in Pending(requests)
    /\ r \in ResponsesFor(scenario, requests[k].call)
    /\ requests' = [requests EXCEPT ![k].state = "resolved", ![k].res = r]
    /\ testContext' =
          [testContext EXCEPT
              !.createdProducts = addCreatedProduct(@, Get(r.json, "id"))]
    /\ executed' = Append(executed, "addCreatedProduct")
    /\ lastWrite' = [op |-> "add", by |-> "continuation",
                     pending |-> Cardinality(Pending(requests')) ]
    /\ UNCHANGED <<unitVars, call, pc, step, ret, currentEnv, suite, suitesRun, position, scenario,
                   stage, verdict, clock>>

\* a response arrives: the request resolves
Resolve(k, r) ==
    /\ suite # "none"
    /\ k \in Pending(requests)
    /\ r \in ResponsesFor(scenario, requests[k].call)
    /\ requests' = [requests EXCEPT ![k].state = "resolved", ![k].res = r]
    /\ UNCHANGED <<unitVars, callVars, currentEnv, suite, suitesRun, position, scenario, stage,
                   verdict, testContext, clock, lastWrite>>

\* a client that issues the request again when it is rejected
RejectRetry(k) ==
    /\ suite # "none"
    /\ k \in Pending(requests)
    /\ requests[k].attempts <= 1
    /\ requests' = [requests EXCEPT ![k].attempts = @ + 1]
    /\ UNCHANGED <<unitVars, callVars, currentEnv, suite, suitesRun, position, scenario, stage,
                   verdict, testContext, clock, lastWrite>>

\* a request is rejected (network error, timeout): the promise the scenario
\* returned rejects and the scenario fails
Reject(k) ==
    /\ suite # "none"
    /\ k \in Pending(requests)
    /\ requests' = [requests EXCEPT ![k].state = "rejected"]
    /\ verdict' = IF verdict = "running" THEN "failed" ELSE verdict
    /\ UNCHANGED <<unitVars, callVars, currentEnv, suite, suitesRun, position, scenario, stage,
                   testContext, clock, lastWrite>>

\* every request of the stage has resolved: the continuation runs to its
\* end or to the first statement that raises; a scenario with a further
\* stage then issues its requests
Continue ==
    /\ verdict = "running"
    /\ \A k \in 1..Len(requests) : requests[k].state = "resolved"
    /\ LET body == StageBody(scenario, stage, StageResponses(requests, stage),
                             testContext)
           run == RunStatements(body, testContext.createdProducts, executed)
       IN  /\ executed' = run.labels
           /\ testContext' = [testContext EXCEPT !.createdProducts = run.list]
           /\ lastWrite' = IF Tracks(SubSeq(run.labels, Len(executed) + 1, Len(run.labels)))
                           THEN [op |-> "add", by |-> "continuation",
                                 pending |-> Cardinality(Pending(requests))]
                           ELSE lastWrite
           /\ IF ~run.ok
              THEN verdict' = "failed" /\ UNCHANGED <<stage, requests>>
              ELSE IF stage < StageCount(scenario)
                   THEN /\ stage' = stage + 1
                        /\ requests' = requests \o Entries(scenario, stage + 1)
                        /\ UNCHANGED verdict
                   ELSE verdict' = "passed" /\ UNCHANGED <<stage, requests>>
    /\ UNCHANGED <<unitVars, call, pc, step, ret, currentEnv, suite, suitesRun, position, scenario, clock>>

\* the suite ends, time having passed: its afterAll hook runs
EndSuite ==
    /\ suite # "none"
    /\ verdict # "running"
    /\ clock' = clock + 1
    /\ testContext' = IF HasHooks(suite)
                      THEN teardownTestSuite(testContext, clock + 1)
                      ELSE testContext
    /\ lastWrite' = IF HasHooks(suite)
                    THEN [op |-> "clear", by |-> "afterAll",
                          pending |-> Cardinality(Pending(requests))]
                    ELSE lastWrite
    /\ suite' = "none"
    /\ suitesRun' = suitesRun \cup {suite}
    /\ position' = 0
    /\ scenario' = "none"
    /\ stage' = 0
    /\ requests' = <<>>
    /\ verdict' = "none"
    /\ executed' = <<>>
    /\ UNCHANGED <<unitVars, call, pc, step, ret, currentEnv>>

AllScenarios == UNION {ScenariosOf(s) : s \in SuiteNames}

NextSuite ==
    \/ \E s \in SuiteNames : StartSuite(s)
    \/ \E id \in AllScenarios : StartScenario(id)
    \/ \E k \in 1..Len(requests) :
          \E r \in ResponsesFor(scenario, requests[k].call) : Resolve(k, r)
    \/ \E k \in 1..Len(requests) : Reject(k)
    \/ Continue
    \/ EndSuite

SpecSuite == InitSuite /\ [][NextSuite]_vars

(***************************************************************************)
(* Loading environment.js, apiClient.js and jest.setup.js                  *)
(***************************************************************************)
\* the names every object literal inherits from Object.prototype
InheritedKeys ==
    {"constructor", "toString", "valueOf", "hasOwnProperty", "isPrototypeOf",
     "toLocaleString", "propertyIsEnumerable", "__proto__"}

\* values process.env.NODE_ENV is given before the modules load
EnvNames ==
    {"", "development", "test", "staging", "production",
     "qa", "prod", "dev", "Production", "TEST", "local", "ci", "staging ",
     "undefined", "null", "0"} \cup InheritedKeys

\* a selector that takes every string, the empty one too
currentEnvOfAnyString(nodeEnv) ==
    IF nodeEnv.t = "string" THEN nodeEnv.s ELSE "development"

\* process.env.NODE_ENV || 'development'
currentEnvOf(nodeEnv) == IF Truthy(nodeEnv) THEN nodeEnv.s ELSE "development"

\* environments[currentEnv]: an own key gives its profile, an inherited
\* key a member of Object.prototype, any other name undefined
configOf(name) ==
    IF name \in Profiles
    THEN [t |-> "profile", name |-> name, settings |-> environments[name]]
    ELSE IF name \in InheritedKeys THEN [t |-> "inherited", name |-> name]
    ELSE Undefined

\* config.baseURL, config.timeout: a TypeError on undefined
ReadConfig(cfg, field) ==
    CASE cfg.t = "profile" -> [t |-> "value", v |-> cfg.settings[field]]
      [] cfg.t = "inherited" -> Undefined
      [] OTHER -> [t |-> "TypeError"]

\* require('./environment'): evaluated once, then cached
RequireEnvironment(m) ==
    IF m.environment = "loaded" THEN m
    ELSE [m EXCEPT !.environment = "loaded",
                   !.env = currentEnvOf(NODE_ENV),
                   !.config = configOf(currentEnvOf(NODE_ENV))]

SetEnv(name) ==
    /\ NODE_ENV = Undefined
    /\ modules.environment = "unloaded"
    /\ NODE_ENV' = Str(name)
    /\ UNCHANGED <<callVars, suiteVars, modules, retry, caller>>

LoadEnvironment ==
    /\ modules.environment = "unloaded"
    /\ modules' = RequireEnvironment(modules)
    /\ UNCHANGED <<callVars, suiteVars, NODE_ENV, retry, caller>>

\* apiClient.js: module.exports = new ApiClient()
LoadApiClient ==
    /\ modules.apiClient = "unloaded"
    /\ LET m == RequireEnvironment(modules)
           read == ReadConfig(m.config, "baseURL")
       IN  modules' = [m EXCEPT
               !.apiClient = IF read.t = "TypeError" THEN "threw" ELSE "loaded",
               !.baseURL = read]
    /\ UNCHANGED <<callVars, suiteVars, NODE_ENV, retry, caller>>

\* jest.setup.js: jest.setTimeout(config.timeout)
LoadJestSetup ==
    /\ modules.jestSetup = "unloaded"
    /\ LET m == RequireEnvironment(modules)
           read == ReadConfig(m.config, "timeout")
       IN  modules' = [m EXCEPT
               !.jestSetup = IF read.t = "TypeError" THEN "threw" ELSE "loaded",
               !.timeout = read]
    /\ UNCHANGED <<callVars, suiteVars, NODE_ENV, retry, caller>>

InitEnv == IdleCall /\ IdleSuite /\ IdleUnits

NextEnv ==
    \/ \E name \in EnvNames : SetEnv(name)
    \/ LoadEnvironment
    \/ LoadApiClient
    \/ LoadJestSetup

SpecEnv == InitEnv /\ [][NextEnv]_vars

(***************************************************************************)
(* retryWithBackoff of testHelpers.js                                      *)
(***************************************************************************)
MaxRetries == 3
MaxDelay == 1000000

\* a delay beyond MaxDelay; doubling it leaves it beyond MaxDelay, as
\* doubling a double ends at Infinity
Huge == MaxDelay + 1

\* the retries below which the model does not tell retries apart; none
\* of them is 0, and a double stops decreasing at -2^53
RetriesFloor == -(MaxRetries + 2)

\* invocations and events the record of a run holds
CallCap == MaxRetries + 2
LogCap == 2 * CallCap

Delays == {0, 1, 1000}

\* retries === 0
Exhausted(retries) == retries = 0

\* a recursion that hands on the retries it was given
NextRetriesSame(retries) == retries

\* retries - 1
NextRetries(retries) ==
    IF retries <= RetriesFloor THEN RetriesFloor ELSE retries - 1

\* a recursion that hands on the delay it was given
NextDelaySame(delay) == delay

\* delay * 2
NextDelay(delay) == IF delay * 2 > MaxDelay THEN Huge ELSE delay * 2

Event(e, n, ok, ms) == [e |-> e, n |-> n, ok |-> ok, ms |-> ms]
Record(log, event) == IF Len(log) < LogCap THEN Append(log, event) ELSE log
Count(n) == IF n < CallCap THEN n + 1 ELSE n

\* retryWithBackoff(fn, retries, delay) is called
StartRetry(retries, delay) ==
    /\ retry.pc = "idle"
    /\ retry' = [pc |-> "calling", retries |-> retries, delay |-> delay,
                 retries0 |-> retries, delay0 |-> delay, calls |-> 0,
                 log |-> <<>>, result |-> [t |-> "none", of |-> 0]]
    /\ UNCHANGED <<callVars, suiteVars, NODE_ENV, modules, caller>>

\* return await fn(): fn resolves
FnResolves ==
    /\ retry.pc = "calling"
    /\ LET n == Count(retry.calls)
       IN  retry' = [retry EXCEPT
               !.pc = "returned",
               !.calls = n,
               !.log = Record(@, Event("fn", n, TRUE, 0)),
               !.result = [t |-> "value", of |-> n]]
    /\ UNCHANGED <<callVars, suiteVars, NODE_ENV, modules, caller>>

\* fn rejects: the catch block throws the error when retries === 0 and
\* starts wait(delay) otherwise
FnRejects ==
    /\ retry.pc = "calling"
    /\ LET n == Count(retry.calls)
           failed == Record(retry.log, Event("fn", n, FALSE, 0))
       IN  IF Exhausted(retry.retries)
           THEN retry' = [retry EXCEPT
                    !.pc = "thrown", !.calls = n, !.log = failed,
                    !.result = [t |-> "error", of |-> n]]
           ELSE retry' = [retry EXCEPT
                    !.pc = "waiting", !.calls = n,
                    !.log = Record(failed, Event("wait", n, FALSE, retry.delay))]
    /\ UNCHANGED <<callVars, suiteVars, NODE_ENV, modules, caller>>

\* the timer of wait(delay) fires:
\* return retryWithBackoff(fn, retries - 1, delay * 2)
TimerFires ==
    /\ retry.pc = "waiting"
    /\ retry' = [retry EXCEPT
           !.pc = "calling",
           !.retries = NextRetries(@),
           !.delay = NextDelay(@)]
    /\ UNCHANGED <<callVars, suiteVars, NODE_ENV, modules, caller>>

InitRetry == IdleCall /\ IdleSuite /\ IdleUnits

NextRetry ==
    \/ \E retries \in (-2)..MaxRetries : \E delay \in Delays :
          StartRetry(retries, delay)
    \/ FnResolves
    \/ FnRejects
    \/ TimerFires

SpecRetry == InitRetry /\ [][NextRetry]_vars

\* fn settles and the timer fires: every pending step is taken in the end
SpecRetryFair == SpecRetry /\ WF_vars(NextRetry)

(***************************************************************************)
(* The TestContext of testHelpers.js under the calls of its users          *)
(***************************************************************************)
MaxOffers == 3
MaxClock == 4

\* product IDs a caller hands to addCreatedProduct
OfferedIds == {IntV(1), IntV(2), IntV(0), Null, Undefined, Str("")}

\* Created Products: ${testContext.getCreatedProducts().length}
CreatedProductsLogged(ctx) == Len(getCreatedProducts(ctx.createdProducts).items)

\* the IDs among offered that are no 0, null, undefined or ''
RECURSIVE DistinctIds(_)
DistinctIds(offered) ==
    IF offered = <<>> THEN {}
    ELSE LET rest == DistinctIds(SubSeq(offered, 2, Len(offered)))
         IN  IF offered[1] \in {IntV(0), Null, Undefined, Str("")}
             THEN rest ELSE rest \cup {offered[1]}

AddProduct(productId) ==
    /\ Len(caller.offered) < MaxOffers
    /\ LET list == addCreatedProduct(testContext.createdProducts, productId)
       IN  /\ testContext' = [testContext EXCEPT !.createdProducts = list]
           /\ caller' = [caller EXCEPT
                  !.op = "addCreatedProduct",
                  !.offered = Append(@, productId),
                  !.held = IF @ # NoValue /\ @.ofList
                           THEN [@ EXCEPT !.items = list] ELSE @]
    /\ UNCHANGED <<callVars, currentEnv, suite, suitesRun, position, scenario,
                   stage, requests, verdict, clock, lastWrite, NODE_ENV,
                   modules, retry>>

GetProducts ==
    /\ caller' = [caller EXCEPT
           !.op = "getCreatedProducts",
           !.held = getCreatedProducts(testContext.createdProducts),
           !.pushed = FALSE]
    /\ UNCHANGED <<callVars, suiteVars, NODE_ENV, modules, retry>>

\* the caller pushes onto the array it was handed
MutateHeld(v) ==
    /\ caller.held # NoValue
    /\ ~caller.pushed
    /\ caller' = [caller EXCEPT
           !.op = "push",
           !.held = [@ EXCEPT !.items = Append(@, v)],
           !.pushed = TRUE]
    /\ testContext' =
           IF caller.held.ofList
           THEN [testContext EXCEPT !.createdProducts = Append(@, v)]
           ELSE testContext
    /\ UNCHANGED <<callVars, currentEnv, suite, suitesRun, position, scenario,
                   stage, requests, verdict, clock, lastWrite, NODE_ENV,
                   modules, retry>>

\* this.createdProducts = []: the array handed out before is the list no more
ClearProducts ==
    /\ testContext' = [testContext EXCEPT
           !.createdProducts = clearCreatedProducts(@)]
    /\ caller' = [caller EXCEPT
           !.op = "clearCreatedProducts",
           !.offered = <<>>,
           !.held = IF @ = NoValue THEN @ ELSE [@ EXCEPT !.ofList = FALSE]]
    /\ UNCHANGED <<callVars, currentEnv, suite, suitesRun, position, scenario,
                   stage, requests, verdict, clock, lastWrite, NODE_ENV,
                   modules, retry>>

\* teardownTestSuite: logs the count, then clears
Teardown ==
    /\ testContext' = teardownTestSuite(testContext, clock)
    /\ caller' = [caller EXCEPT
           !.op = "teardownTestSuite",
           !.logged = [count |-> CreatedProductsLogged(testContext),
                       distinct |-> Cardinality(DistinctIds(caller.offered))],
           !.offered = <<>>,
           !.held = IF @ = NoValue THEN @ ELSE [@ EXCEPT !.ofList = FALSE]]
    /\ UNCHANGED <<callVars, currentEnv, suite, suitesRun, position, scenario,
                   stage, requests, verdict, clock, lastWrite, NODE_ENV,
                   modules, retry>>

InitContext == IdleCall /\ IdleSuite /\ IdleUnits

NextContext ==
    \/ \E productId \in OfferedIds : AddProduct(productId)
    \/ GetProducts
    \/ \E v \in {IntV(0), IntV(1)} : MutateHeld(v)
    \/ ClearProducts
    \/ Teardown

SpecContext == InitContext /\ [][NextContext]_vars

\* the timer of the context; Date.now() is clock
Millis(v) == IF v.t = "number" THEN v.n ELSE 0

\* stopTimer: return this.testEndTime - this.testStartTime
stopTimerReturns(ctx, now) == now - Millis(ctx.testStartTime)

\* TestContext.getDuration
getDuration(ctx) ==
    IF Truthy(ctx.testStartTime) /\ Truthy(ctx.testEndTime)
    THEN Millis(ctx.testEndTime) - Millis(ctx.testStartTime)
    ELSE 0

\* time passes
Tick ==
    /\ clock < MaxClock
    /\ clock' = clock + 1
    /\ UNCHANGED <<callVars, currentEnv, suite, suitesRun, position, scenario,
                   stage, requests, verdict, testContext, lastWrite, unitVars>>

\* startTimer(), alone or in setupTestSuite
StartTimer ==
    /\ testContext' = setupTestSuite(testContext, clock)
    /\ caller' = [caller EXCEPT !.op = "startTimer", !.started = IntV(clock)]
    /\ UNCHANGED <<callVars, currentEnv, suite, suitesRun, position, scenario,
                   stage, requests, verdict, clock, lastWrite, NODE_ENV,
                   modules, retry>>

\* stopTimer(), alone or in teardownTestSuite
StopTimer ==
    /\ testContext' = stopTimer(testContext, clock)
    /\ caller' = [caller EXCEPT
           !.op = "stopTimer",
           !.returned = stopTimerReturns(testContext, clock),
           !.at = clock]
    /\ UNCHANGED <<callVars, currentEnv, suite, suitesRun, position, scenario,
                   stage, requests, verdict, clock, lastWrite, NODE_ENV,
                   modules, retry>>

GetDuration ==
    /\ caller' = [caller EXCEPT
           !.op = "getDuration",
           !.returned = getDuration(testContext),
           !.at = clock]
    /\ UNCHANGED <<callVars, suiteVars, NODE_ENV, modules, retry>>

\* the clock of a running process is past the epoch
InitTimer ==
    /\ IdleCall
    /\ IdleUnits
    /\ currentEnv = "development"
    /\ suite = "none"
    /\ suitesRun = {}
    /\ position = 0
    /\ scenario = "none"
    /\ stage = 0
    /\ requests = <<>>
    /\ verdict = "none"
    /\ testContext = NewTestContext
    /\ clock = 1
    /\ lastWrite = NoWrite

NextTimer == Tick \/ StartTimer \/ StopTimer \/ GetDuration

SpecTimer == InitTimer /\ [][NextTimer]_vars

(***************************************************************************)
(* Properties                                                              *)
(***************************************************************************)
Done == pc \in {"returned", "thrown"}
Errors == {ret.error[i] : i \in 1..Len(ret.error)}
ValidateSchemaReturned == pc = "returned" /\ call.fn = "validateSchema"

\* The rules of a schema a value violates, stated rule by rule and without
\* any order of evaluation: a required key that is missing, a value that is
\* not of the declared type (as Joi reads it), each rule of the declared
\* type the value breaks, each key the schema does not declare.
RECURSIVE Violations(_, _, _)
Violations(value, schema, path) ==
    IF value.t = "undefined"
    THEN IF schema.required THEN {Err(path, "any.required")} ELSE {}
    ELSE CASE schema.type = "number" ->
                LET v == Coerced(value, JoiDefaults)
                IN  IF ~IsNum(v) THEN {Err(path, "number.base")}
                    ELSE {Err(path, "number." \o schema.rules[i].name) :
                            i \in {j \in 1..Len(schema.rules) :
                                     ~NumberRuleHolds(v, schema.rules[j])}}
           [] schema.type = "string" ->
                IF value.t # "string" THEN {Err(path, "string.base")}
                ELSE IF value.s = "" THEN {Err(path, "string.empty")}
                ELSE {Err(path, "string." \o schema.rules[i].name) :
                        i \in {j \in 1..Len(schema.rules) :
                                 ~StringRuleHolds(value.s, schema.rules[j])}}
           [] schema.type = "object" ->
                IF value.t # "object" THEN {Err(path, "object.base")}
                ELSE UNION {Violations(Get(value, schema.keys[i].key),
                                       schema.keys[i].schema,
                                       path \o <<schema.keys[i].key>>) :
                              i \in 1..Len(schema.keys)}
                     \cup {Err(path \o <<k>>, "object.unknown") :
                             k \in DOMAIN value.f \ SchemaKeys(schema)}

\* C1: validateSchema reports every rule the candidate violates, each once,
\* not only the first.
C1_EveryViolationReported ==
    ValidateSchemaReturned =>
        /\ Errors = Violations(call.data, schemas(call.schema), <<>>)
        /\ Len(ret.error) = Cardinality(Errors)

\* a candidate that violates five rules, all five reported
C1_Witness ==
    /\ ValidateSchemaReturned
    /\ Cardinality(Violations(call.data, schemas(call.schema), <<>>)) >= 5
    /\ Len(ret.error) >= 5

\* a number as Joi reads it (a numeral text counts as its number)
AsNumber(v) == Coerced(v, JoiDefaults)
IsRatingShape(r) ==
    /\ r.t = "object"
    /\ IsNum(AsNumber(Get(r, "rate")))
    /\ AsNumber(Get(r, "rate")).n >= 0
    /\ NumLE(AsNumber(Get(r, "rate")), IntV(5))
    /\ IsInteger(AsNumber(Get(r, "count")))
    /\ AsNumber(Get(r, "count")).n >= 0

\* C2: schemas.product accepts an object only if it has a positive integer
\* id, a positive price and a rating sub-object with rate in [0,5] and a
\* non-negative integer count; a product without rating is rejected.
C2_ProductShapeRequiresRating ==
    (/\ ValidateSchemaReturned
     /\ call.schema = "product"
     /\ call.data.t = "object"
     /\ ret.error = <<>>)
    => /\ IsInteger(AsNumber(Get(call.data, "id")))
       /\ AsNumber(Get(call.data, "id")).n > 0
       /\ IsNum(AsNumber(Get(call.data, "price")))
       /\ AsNumber(Get(call.data, "price")).n > 0
       /\ HasProperty(call.data, "rating")
       /\ IsRatingShape(Get(call.data, "rating"))

\* a creation payload that is well formed but for its price
IsPayloadWithPrice(d) ==
    /\ d.t = "object"
    /\ DOMAIN d.f = {"title", "price", "description", "category", "image"}
    /\ d.f.title.t = "string" /\ d.f.title.s # ""
    /\ d.f.image.t = "string" /\ IsUri(d.f.image.s)
    /\ IsNum(d.f.price)

\* C3: schemas.createProduct has no id and no rating field and requires the
\* price to be merely non-negative: price 0 is accepted, a negative price is
\* rejected.
C3_CreatePayloadPriceNonNegative ==
    (ValidateSchemaReturned /\ call.schema = "createProduct" /\ call.data.t = "object")
    => /\ (HasProperty(call.data, "id") \/ HasProperty(call.data, "rating"))
             => ret.error # <<>>
       /\ IsPayloadWithPrice(call.data)
             => (ret.error = <<>> <=> call.data.f.price.n >= 0)

\* C4: validation never coerces types: a declared number field given a value
\* that is no number (a numeral text for id or price) is reported.
C4_NeverCoerces ==
    (ValidateSchemaReturned /\ call.data.t = "object")
    => \A k \in {"id", "price"} :
          (/\ k \in SchemaKeys(schemas(call.schema))
           /\ HasProperty(call.data, k)
           /\ TypeOfJs(call.data.f[k]) # "number")
          => \E e \in Errors : e.path = <<k>>

\* C5: assertSchema throws iff validateSchema reports an error;
\* validateGetResponse(response, true) throws when response.json violates
\* the product schema; validateGetResponse(response, false) runs no schema
\* check and passes or fails on the status and the content type alone.
ResponseIsJson200(r) ==
    /\ r.status = IntV(200)
    /\ r.contentType.t = "string"
    /\ Contains(r.contentType.s, "application/json")
RanSchemaCheck == \E i \in 1..Len(executed) : executed[i] = "validateSchema"
C5_ThrowsExactlyOnSchemaError ==
    /\ (Done /\ call.fn = "assertSchema")
          => (pc = "thrown"
                <=> Violations(call.data, schemas(call.schema), <<>>) # {})
    /\ (Done /\ call.fn = "validateGetResponse" /\ call.validateProduct)
          => /\ Violations(call.response.json, productSchema, <<>>) # {} => pc = "thrown"
             /\ pc = "returned" => ResponseIsJson200(call.response)
    /\ (call.fn = "validateGetResponse" /\ ~call.validateProduct)
          => /\ ~RanSchemaCheck
             /\ Done => (pc = "returned" <=> ResponseIsJson200(call.response))

\* a 200 JSON response whose body breaks the schema: the schema check throws
C5_Witness ==
    /\ pc = "thrown"
    /\ call.fn = "validateGetResponse"
    /\ call.validateProduct
    /\ ResponseIsJson200(call.response)
    /\ RanSchemaCheck

\* C6: no helper swallows a failure: a failing statement ends the call as
\* thrown at once, and no later statement of the helper is executed.
C6_FailuresPropagate ==
    /\ Len(executed) <= Len(Body(call))
    /\ \A i \in 1..Len(executed) : executed[i] = Body(call)[i].label
    /\ \A i \in 1..Len(executed) : ~Body(call)[i].ok => (i = Len(executed) /\ pc = "thrown")
    /\ pc = "thrown" => (executed # <<>> /\ ~Body(call)[Len(executed)].ok)
    /\ pc = "returned" => \A i \in 1..Len(Body(call)) : Body(call)[i].ok

\* a helper that failed with two or more of its statements still to run,
\* one of which would have failed too
C6_Witness ==
    /\ pc = "thrown"
    /\ call.fn = "assertProductStructure"
    /\ Len(executed) + 2 <= Len(Body(call))
    /\ \E i \in (Len(executed) + 1)..Len(Body(call)) : ~Body(call)[i].ok

\* === and Object.is, stated on values
SameValue(a, b) ==
    CASE a.t = "object" /\ b.t = "object" -> a.ref = b.ref
      [] a.t = "nan" \/ b.t = "nan" -> a.t = b.t
      [] IsZero(a) /\ IsZero(b) -> ("neg" \in DOMAIN a) = ("neg" \in DOMAIN b)
      [] OTHER -> a = b
StrictlyEqual(a, b) ==
    CASE a.t = "object" /\ b.t = "object" -> a.ref = b.ref
      [] a.t = "nan" \/ b.t = "nan" -> FALSE
      [] IsZero(a) /\ IsZero(b) -> TRUE
      [] OTHER -> a = b
MatchDone ==
    /\ Done
    /\ call.fn = "validateProductMatchesSubmittedData"
    /\ call.actual.t = "object"
    /\ call.expected.t = "object"

\* C7 as stated: the comparison passes iff for every key of submittedData
\* the response value is strictly equal (===) to the submitted value.
C7_MatchIsStrictEquality ==
    MatchDone =>
        (pc = "returned"
            <=> \A k \in DOMAIN call.expected.f :
                   StrictlyEqual(Get(call.actual, k), call.expected.f[k]))

\* C7 as amended: the comparison passes iff for every key of submittedData
\* the response value is the same value (Object.is) as the submitted one:
\* shallow, key by key, keys of the response alone ignored, a nested object
\* only when it is the identical object.
C7_MatchIsSameValue ==
    MatchDone =>
        (pc = "returned"
            <=> \A k \in DOMAIN call.expected.f :
                   SameValue(Get(call.actual, k), call.expected.f[k]))

\* a response with an id of its own and the identical nested object passes
C7_Witness ==
    /\ MatchDone
    /\ pc = "returned"
    /\ HasProperty(call.actual, "id")
    /\ HasProperty(call.expected, "rating")
    /\ HasProperty(call.expected, "price")

\* C8: assertInRange passes iff min <= value <= max, bounds included; a
\* value that is no number fails.
C8_InRangeInclusive ==
    (Done /\ call.fn = "assertInRange")
    => IF IsNum(call.value)
       THEN pc = "returned"
              <=> /\ call.min.n * Pow10(call.value.e) <= call.value.n
                  /\ call.value.n <= call.max.n * Pow10(call.value.e)
       ELSE pc = "thrown"

\* value = max, above min, passes
C8_Witness ==
    /\ pc = "returned"
    /\ call.fn = "assertInRange"
    /\ call.value = call.max
    /\ call.min # call.max

\* C9: assertStringNotEmpty passes iff str is a string with at least one
\* character that is not whitespace.
C9_StringNotEmpty ==
    (Done /\ call.fn = "assertStringNotEmpty")
    => (pc = "returned"
          <=> /\ call.str.t = "string"
              /\ \E i \in 1..Len(call.str.s) :
                    CharAt(call.str.s, i) \notin {" ", "\t", "\n"})

\* a text of blanks only fails, at the trim check
C9_Witness ==
    /\ pc = "thrown"
    /\ call.fn = "assertStringNotEmpty"
    /\ call.str.t = "string"
    /\ Len(call.str.s) >= 2
    /\ Len(executed) = 3

\* C10: getValidProductId returns an integer in [1,20], getInvalidProductId
\* an integer in [1000,9999], for every random draw, and
\* getBoundaryProductIds returns {min: 1, max: 20}, the validProductRange.
C10_IdsInRange ==
    pc = "returned" =>
        /\ call.fn = "getValidProductId"
              => IsInteger(ret) /\ 1 <= ret.n /\ ret.n <= 20
        /\ call.fn = "getInvalidProductId"
              => IsInteger(ret) /\ 1000 <= ret.n /\ ret.n <= 9999
        /\ call.fn = "getBoundaryProductIds"
              => /\ DOMAIN ret.f = {"min", "max"}
                 /\ ret.f.min = IntV(1) /\ ret.f.max = IntV(20)
                 /\ ret.f = validProductRange.f

\* the largest draw gives the top of the invalid range
C10_Witness ==
    /\ pc = "returned"
    /\ call.fn = "getInvalidProductId"
    /\ call.m = Pow2(MantissaBits) - 1
    /\ ret = IntV(9999)

GeneratedProduct == pc = "returned" /\ call.fn = "generateProductData"
AllDigits(s) == \A i \in 1..Len(s) : IsDigit(CharAt(s, i))
NonEmptyString(v) == v.t = "string" /\ Len(v.s) > 0
InCents(v) == v.n * Pow10(2 - v.e)

\* C11: getNonNumericProductId never returns a string of decimal digits
\* only: for every draw the 5 characters include one that is no digit.
C11_NeverAllDigits ==
    (pc = "returned" /\ call.fn = "getNonNumericProductId")
        => (ret.t = "string" /\ Len(ret.s) = 5 /\ ~AllDigits(ret.s))

\* C12: without overrides the payload has a price in [1, 999] with at most
\* two decimals (100 to 99900 cents), a category among the four of
\* testData.categories, and a title, description and image that are
\* non-empty strings; the generator's categories are testData's.
C12_DefaultsInRange ==
    (GeneratedProduct /\ call.overrides \in {Undefined, Obj(<<>>)})
        => /\ DOMAIN ret.f = ProductFields
           /\ IsNum(ret.f.price) /\ ret.f.price.e <= 2
           /\ 100 <= InCents(ret.f.price) /\ InCents(ret.f.price) <= 99900
           /\ \E i \in 1..Len(categories) : ret.f.category = categories[i]
           /\ Len(categories) = 4
           /\ {generatorCategories[i] : i \in 1..Len(generatorCategories)}
                 = {categories[i] : i \in 1..Len(categories)}
           /\ NonEmptyString(ret.f.title)
           /\ NonEmptyString(ret.f.description)
           /\ NonEmptyString(ret.f.image)

\* the smallest draw gives the smallest price, 1
C12_Witness ==
    /\ GeneratedProduct
    /\ call.overrides = Undefined
    /\ call.rnd.price = 0
    /\ ret.f.price = IntV(1)
    /\ ret.f.category = Str("women's clothing")

\* a generated default, field by field
IsDefault(k, v) ==
    CASE k = "title" ->
            /\ v.t = "string" /\ Len(v.s) = 18
            /\ SubSeq(v.s, 1, 13) = "Test Product "
      [] k = "price" ->
            IsNum(v) /\ v.e <= 2 /\ 100 <= InCents(v) /\ InCents(v) <= 99900
      [] k = "description" ->
            /\ v.t = "string" /\ Len(v.s) = 45
            /\ SubSeq(v.s, 1, 25) = "Test product description "
      [] k = "image" -> v = Str("https://fakestoreapi.com/img/test.jpg")
      [] k = "category" -> \E i \in 1..Len(categories) : v = categories[i]

\* C13: every own key of overrides has the overrides' value in the result
\* (falsy, null and undefined values and keys that are no product field
\* included), every product field overrides does not name has its generated
\* default, and the result is a new object, overrides being left as it was.
C13_OverridesWin ==
    (GeneratedProduct /\ call.overrides # Undefined)
        => /\ DOMAIN ret.f = ProductFields \cup DOMAIN call.overrides.f
           /\ \A k \in DOMAIN call.overrides.f : ret.f[k] = call.overrides.f[k]
           /\ \A k \in ProductFields \ DOMAIN call.overrides.f :
                 IsDefault(k, ret.f[k])
           /\ ret.ref # call.overrides.ref

\* an empty title given as override stays empty
C13_Witness ==
    /\ GeneratedProduct
    /\ call.overrides = Obj([title |-> Str("")])
    /\ ret.f.title = Str("")
    /\ ret.f.price # Undefined

(***************************************************************************)
(* Properties of the suites                                                *)
(***************************************************************************)
Decided == verdict \in {"passed", "failed"}
Rejected(reqs) == \E k \in 1..Len(reqs) : reqs[k].state = "rejected"
Resolved(reqs) == \A k \in 1..Len(reqs) : reqs[k].state = "resolved"
StatusOf(e) == e.res.status

\* C14 as stated: the tracking list is written (addCreatedProduct,
\* clearCreatedProducts) only from the bodies of the beforeAll and afterAll
\* hooks, never from a scenario or the continuation of a request.
C14_WrittenOnlyInHooks ==
    lastWrite.op # "none" => lastWrite.by \in {"beforeAll", "afterAll"}

\* C14 amended: addCreatedProduct is called only from the continuation of a
\* scenario, once every request of the scenario has resolved, and
\* clearCreatedProducts only from the afterAll hook; a write is one
\* synchronous call, so no two writers of the list are interleaved.
C14_WrittenAfterJoinOrInTeardown ==
    /\ lastWrite.op = "add" => lastWrite.by = "continuation" /\ lastWrite.pending = 0
    /\ lastWrite.op = "clear" => lastWrite.by = "afterAll"
    /\ lastWrite.op = "none" => testContext.createdProducts = <<>>

C14_Witness ==
    /\ scenario = "POST-multiple"
    /\ verdict = "passed"
    /\ lastWrite.op = "add"
    /\ testContext.createdProducts # <<>>
    /\ suitesRun = {"GET"}

OwnVerdict(id, reqs) ==
    LET last == reqs[Len(reqs)].stage
        Joined(st) == \A k \in 1..Len(reqs) :
                          reqs[k].stage = st => reqs[k].state = "resolved"
        StageOk(st) ==
            RunStatements(StageBody(id, st, StageResponses(reqs, st), NewTestContext),
                          <<>>, <<>>).ok
    IN  IF Rejected(reqs) THEN "failed"
        ELSE IF \E st \in 1..last : Joined(st) /\ ~StageOk(st) THEN "failed"
        ELSE IF Resolved(reqs) /\ last = StageCount(id) THEN "passed"
        ELSE "running"

\* C16: the verdict of a scenario depends only on the responses to its own
\* requests: it is the verdict those responses give under a fresh context,
\* whatever ran before, whatever the tracking list and the timer hold.
C16_VerdictFromOwnResponses ==
    Decided => verdict = OwnVerdict(scenario, requests)

C16_Witness ==
    /\ scenario = "POST-generated"
    /\ verdict = "failed"
    /\ ~Rejected(requests)
    /\ testContext.createdProducts # <<>>
    /\ testContext.testStartTime = IntV(1)

\* the path a client call addresses, and the timeouts of the profiles
PathOf(c) ==
    IF c.op \in {"getAllProducts", "createProduct"} THEN "/products"
    ELSE "/products/" \o ToText(c.id)
TimeoutOf(profile) ==
    CASE profile \in {"development", "test"} -> 10000
      [] profile = "staging" -> 8000
      [] profile = "production" -> 5000
CallsUpTo(id, st) ==
    IF st = 0 THEN 0
    ELSE IF st = 1 THEN Len(StageCalls(id, 1))
    ELSE Len(StageCalls(id, 1)) + Len(StageCalls(id, 2))

\* C17: every operation of the client issues exactly one request, to
\* baseURL followed by the endpoint, with the timeout of the active
\* profile; a rejected request fails the scenario with no second attempt,
\* and no scenario calls retryWithBackoff.
C17_OneRequestNoRetry ==
    /\ \A e \in Profiles : \A p \in {"/products", "/products/1"} :
          \A r \in {get(e, p), post(e, p, validProduct), put(e, p, validProduct),
                    delete(e, p), patch(e, p, validProduct)} :
             /\ r.url = "https://fakestoreapi.com" \o p
             /\ r.timeout = TimeoutOf(e)
    /\ scenario # "none" => Len(requests) = CallsUpTo(scenario, stage)
    /\ \A k \in 1..Len(requests) :
          /\ requests[k].attempts = 1
          /\ requests[k].request.url
                = "https://fakestoreapi.com" \o PathOf(requests[k].call)
          /\ requests[k].request.timeout = TimeoutOf(currentEnv)
          /\ requests[k].state = "rejected" => verdict = "failed"
    /\ \A i \in 1..Len(executed) : executed[i] # "retryWithBackoff"

C17_Witness ==
    /\ currentEnv = "production"
    /\ scenario = "DELETE-special"
    /\ requests[1].state = "rejected"
    /\ requests[1].request.url = "https://fakestoreapi.com/products/!@#$"
    /\ requests[1].request.timeout = 5000
    /\ verdict = "failed"

Tolerant ==
    {"GET-004", "POST-003", "POST-004", "POST-zero-price", "POST-negative-price",
     "POST-empty-title", "POST-long-title", "PUT-002", "PUT-003", "PUT-004",
     "DELETE-002"}

ServerError(e) ==
    e.state = "resolved" /\ ToBeGreaterThanOrEqual(StatusOf(e), IntV(500))

\* C19: every tolerant scenario still asserts that the status is below 500:
\* it fails whenever the response it observes has a 5xx status.
C19_FailsOnServerError ==
    (scenario \in Tolerant /\ Decided
        /\ \E k \in 1..Len(requests) : ServerError(requests[k]))
    => verdict = "failed"

\* the scenarios that submit an invalid input
InvalidInput ==
    {"POST-003", "POST-004", "POST-zero-price", "POST-negative-price",
     "POST-empty-title", "PUT-003", "PUT-004"}

ClientError(status) ==
    ToBeGreaterThanOrEqual(status, IntV(400)) /\ ToBeLessThan(status, IntV(500))

\* C20 as stated: an invalid-input scenario passes when the service answers
\* 200 or 201, and passes when it answers any 4xx status.
C20_AcceptedOrRejected ==
    (scenario \in InvalidInput /\ Decided /\ Resolved(requests)
        /\ (StatusOf(requests[1]) \in {IntV(200), IntV(201)}
              \/ ClientError(StatusOf(requests[1]))))
    => verdict = "passed"

\* the status that counts as success, the status that counts as the
\* rejection, and what the scenario expects of the body of a success
SuccessFor(id, status) ==
    IF id \in {"PUT-003", "PUT-004"} THEN status = IntV(200)
    ELSE status \in {IntV(200), IntV(201)}
RejectionFor(id, status) ==
    IF id \in {"POST-zero-price", "POST-negative-price", "PUT-003"}
    THEN ClientError(status)
    ELSE status \in {IntV(400), IntV(422)}
SubExpectation(id, json) ==
    CASE id \in {"POST-003", "POST-004"} -> HasProperty(json, "id")
      [] id \in {"POST-zero-price", "PUT-003"} ->
            HasProperty(json, "price") /\ json.f.price = IntV(0)
      [] OTHER -> TRUE

\* C20 amended: an invalid-input scenario passes when the service answers
\* 200 (or 201 on POST) with a body that meets the scenario's expectation
\* of it (an id for the missing title and the wrong-typed price, a price
\* of 0 for the zero price, nothing for the negative price and the empty
\* title), and passes when the service rejects the input with 400 or 422
\* (with any 4xx status for the zero and the negative price on POST and
\* the zero price on PUT).
C20_AcceptedConsistentOrRejected ==
    (scenario \in InvalidInput /\ Decided /\ Resolved(requests)
        /\ \/ /\ SuccessFor(scenario, StatusOf(requests[1]))
              /\ SubExpectation(scenario, requests[1].res.json)
           \/ RejectionFor(scenario, StatusOf(requests[1])))
    => verdict = "passed"

C20_Witness ==
    /\ scenario = "POST-zero-price"
    /\ verdict = "passed"
    /\ requests[1].state = "resolved"
    /\ StatusOf(requests[1]) = IntV(201)
    /\ Get(requests[1].res.json, "price") = IntV(0)

\* C21 as stated: the idempotency scenario passes whenever the responses
\* have status 200 or 404, and fails whenever one has a 5xx status.
C21_PassesOn200Or404 ==
    (scenario = "DELETE-idempotent" /\ Decided /\ Resolved(requests)) =>
        /\ (\A k \in 1..Len(requests) :
               StatusOf(requests[k]) \in {IntV(200), IntV(404)})
             => verdict = "passed"
        /\ (\E k \in 1..Len(requests) : ServerError(requests[k]))
             => verdict = "failed"

\* C21 amended: the second DELETE is issued only after the first response;
\* the scenario passes whenever the first response has status 200 and the
\* second 200 or 404, and fails whenever either has a 5xx status.
C21_FirstOkSecondOkOrNotFound ==
    scenario = "DELETE-idempotent" =>
        /\ Len(requests) = 2 =>
              /\ requests[1].state = "resolved"
              /\ StatusOf(requests[1]) = IntV(200)
        /\ (Decided /\ Resolved(requests)) =>
              /\ (/\ Len(requests) = 2
                  /\ StatusOf(requests[1]) = IntV(200)
                  /\ StatusOf(requests[2]) \in {IntV(200), IntV(404)})
                   => verdict = "passed"
              /\ (\E k \in 1..Len(requests) : ServerError(requests[k]))
                   => verdict = "failed"

C21_Witness ==
    /\ scenario = "DELETE-idempotent"
    /\ verdict = "passed"
    /\ Len(requests) = 2
    /\ StatusOf(requests[2]) = IntV(404)

\* the GET scenarios that ask for one product of the valid range, and
\* those of them that look at the product
ByIdScenarios ==
    {"GET-001", "GET-002", "GET-003", "GET-id-1", "GET-id-2", "GET-id-3",
     "GET-id-4", "GET-id-5", "GET-content-type", "GET-response-time"}
StructuralScenarios == ByIdScenarios \ {"GET-content-type", "GET-response-time"}

IsText(v) == v.t = "string"
NonEmptyText(v) == IsText(v) /\ Trim(v.s) # ""

\* the product structure: the fields and their types
HasStructure(json) ==
    /\ json.t = "object"
    /\ {"id", "title", "price", "description", "category", "image", "rating"}
          \subseteq DOMAIN json.f
    /\ TypeOf(json.f.id) = "number" /\ TypeOf(json.f.price) = "number"
    /\ \A k \in {"title", "description", "category", "image"} : IsText(json.f[k])
    /\ json.f.rating.t \in {"object", "array"}
    /\ HasProperty(json.f.rating, "rate") /\ HasProperty(json.f.rating, "count")

\* the full product shape
FullShape(json) ==
    /\ HasStructure(json)
    /\ IsInteger(json.f.id) /\ ToBeGreaterThan(json.f.id, IntV(0))
    /\ ToBeGreaterThan(json.f.price, IntV(0))
    /\ \A k \in {"title", "description", "category", "image"} : NonEmptyText(json.f[k])
    /\ ToBeGreaterThanOrEqual(json.f.rating.f.rate, IntV(0))
    /\ ToBeLessThanOrEqual(json.f.rating.f.rate, IntV(5))
    /\ ToBeGreaterThanOrEqual(json.f.rating.f.count, IntV(0))

\* C22 as stated: a GET-by-id scenario for an ID of the valid range passes
\* only if the status is 200, the id of the body is the requested ID and
\* the body has the full product shape.
C22_PassesOnlyOnFullShape ==
    (scenario \in ByIdScenarios /\ verdict = "passed") =>
        /\ StatusOf(requests[1]) = IntV(200)
        /\ Get(requests[1].res.json, "id") = requests[1].call.id
        /\ FullShape(requests[1].res.json)

\* C22 amended: a GET-by-id scenario for an ID of the valid range passes
\* only if the status is 200; GET-001, the two boundary scenarios and the
\* data-driven scenarios pass only if, besides, the id of the body is the
\* requested ID and the body has the product structure (the seven fields
\* with their types, rating holding rate and count); GET-001 alone passes
\* only on the full product shape.
C22_PassesOnlyOnStructure ==
    (scenario \in ByIdScenarios /\ verdict = "passed") =>
        /\ StatusOf(requests[1]) = IntV(200)
        /\ scenario \in StructuralScenarios =>
              /\ Get(requests[1].res.json, "id") = requests[1].call.id
              /\ HasStructure(requests[1].res.json)
        /\ scenario = "GET-001" => FullShape(requests[1].res.json)

C22_Witness ==
    /\ scenario = "GET-id-3"
    /\ verdict = "passed"
    /\ Get(requests[1].res.json, "id") = IntV(10)
    /\ Get(requests[1].res.json, "price") = IntV(0)

\* success responses without an id, with and without a JSON content type
IdlessSuccesses ==
    {Arrived(st, ct, j, IntV(120)) :
        st \in {IntV(200), IntV(201)}, ct \in {JsonType, Str("text/html")},
        j \in {Obj(<<>>), Null, validProduct, NoIdProduct}}

Raises(stmts) == \E i \in 1..Len(stmts) : ~stmts[i].ok

\* validatePostResponse and validatePutResponse raise on each of them
ValidatorsRequireId ==
    \A r \in IdlessSuccesses :
        Raises(validatePostResponse(r)) /\ Raises(validatePutResponse(r))

CreateOrUpdate == ScenariosOf("POST") \cup ScenariosOf("PUT")

SuccessStatus(status) == status \in {IntV(200), IntV(201)}

\* C23 as stated: a create or update scenario that observes a success
\* status fails unless the body has an id, and validatePostResponse and
\* validatePutResponse fail on a success response without an id.
C23_SuccessNeedsId ==
    /\ ValidatorsRequireId
    /\ (scenario \in CreateOrUpdate /\ verdict = "passed") =>
          \A k \in 1..Len(requests) :
              SuccessStatus(StatusOf(requests[k]))
                  => HasProperty(requests[k].res.json, "id")

\* the create and update scenarios that look for the id of the product
ChecksId ==
    {"POST-001", "POST-002", "POST-003", "POST-004", "POST-generated",
     "POST-multiple", "POST-long-title", "PUT-001", "PUT-002", "PUT-partial",
     "PUT-generated"}

\* C23 amended: validatePostResponse and validatePutResponse fail on a
\* success response without an id, and so do POST-001 to POST-004, the
\* generated-data, three-products and long-title POST scenarios on 200 or
\* 201, and PUT-001, PUT-002, the partial and the generated-data PUT
\* scenarios on 200; the other create and update scenarios do not look
\* for an id.
C23_SuccessNeedsIdWhereChecked ==
    /\ ValidatorsRequireId
    /\ (scenario \in ChecksId /\ verdict = "passed") =>
          \A k \in 1..Len(requests) :
              (IF scenario \in ScenariosOf("PUT")
               THEN StatusOf(requests[k]) = IntV(200)
               ELSE SuccessStatus(StatusOf(requests[k])))
                  => HasProperty(requests[k].res.json, "id")

C23_Witness ==
    /\ scenario = "POST-003"
    /\ verdict = "passed"
    /\ StatusOf(requests[1]) = IntV(201)
    /\ HasProperty(requests[1].res.json, "id")

\* the settings of the four profiles, written out
ProfileSettings(name) ==
    CASE name = "development" -> <<10000, 3, "debug">>
      [] name = "test" -> <<10000, 3, "debug">>
      [] name = "staging" -> <<8000, 2, "info">>
      [] name = "production" -> <<5000, 1, "error">>

IsProfile(cfg, name) ==
    /\ cfg.t = "profile"
    /\ cfg.name = name
    /\ cfg.settings.baseURL = "https://fakestoreapi.com"
    /\ cfg.settings.timeout = ProfileSettings(name)[1]
    /\ cfg.settings.retryAttempts = ProfileSettings(name)[2]
    /\ cfg.settings.logLevel = ProfileSettings(name)[3]

\* C24: once environment.js is loaded, config is the profile NODE_ENV
\* names when it is one of development, test, staging, production, with
\* that profile's timeout, retryAttempts and logLevel and the one baseURL,
\* and it is the development profile when NODE_ENV is unset or empty.
C24_SelectsNamedProfile ==
    modules.environment = "loaded" =>
        /\ \A name \in {"development", "test", "staging", "production"} :
              NODE_ENV = Str(name) => IsProfile(modules.config, name)
        /\ NODE_ENV \in {Undefined, Str("")} =>
              IsProfile(modules.config, "development")

C24_Witness ==
    /\ modules.environment = "loaded"
    /\ NODE_ENV = Str("")
    /\ modules.config.t = "profile"
    /\ modules.config.name = "development"

\* C25: for every NODE_ENV the exported config is a defined profile, and
\* neither the API client nor the Jest setup fails while loading.
C25_ConfigAlwaysDefined ==
    modules.environment = "loaded" =>
        /\ modules.config.t = "profile"
        /\ modules.apiClient # "threw"
        /\ modules.jestSetup # "threw"

Started == retry.pc # "idle"
Terminated == retry.pc \in {"returned", "thrown"}
FnEvents(log) == {i \in 1..Len(log) : log[i].e = "fn"}
WaitEvents(log) == {i \in 1..Len(log) : log[i].e = "wait"}

\* C26: with retries >= 0, fn is invoked at most retries + 1 times; a
\* resolved invocation is the last one and its value is returned; when all
\* retries + 1 invocations reject, the call rejects with the error of the
\* last of them.
C26_AtMostRetriesPlusOne ==
    (Started /\ retry.retries0 >= 0) =>
        /\ retry.calls <= retry.retries0 + 1
        /\ Cardinality(FnEvents(retry.log)) = retry.calls
        /\ \A i \in FnEvents(retry.log) :
              retry.log[i].ok =>
                  /\ i = Len(retry.log)
                  /\ retry.pc = "returned"
                  /\ retry.result = [t |-> "value", of |-> retry.log[i].n]
        /\ retry.pc = "returned" =>
              /\ retry.log[Len(retry.log)].ok
              /\ \A i \in 1..(Len(retry.log) - 1) : ~retry.log[i].ok
        /\ (/\ retry.calls = retry.retries0 + 1
            /\ retry.pc # "calling"
            /\ \A i \in FnEvents(retry.log) : ~retry.log[i].ok)
              => /\ retry.pc = "thrown"
                 /\ retry.result = [t |-> "error", of |-> retry.retries0 + 1]
        /\ retry.pc = "thrown" => retry.calls = retry.retries0 + 1

C26_Witness ==
    /\ retry.pc = "thrown"
    /\ retry.retries0 = 2
    /\ retry.calls = 3
    /\ retry.result = [t |-> "error", of |-> 3]

\* delay * 2^k, told apart up to MaxDelay
Scaled(delay, k) == IF delay * (2 ^ k) > MaxDelay THEN Huge ELSE delay * (2 ^ k)

\* C27: the wait before the k-th retry is delay * 2^(k-1); each wait
\* comes right after a rejected invocation and right before the next
\* invocation; no wait follows a resolved invocation or the final rejection.
C27_ExponentialBackoff ==
    (Started /\ retry.retries0 >= 0) =>
        /\ \A i \in WaitEvents(retry.log) :
              /\ i = 2 * retry.log[i].n
              /\ retry.log[i].ms = Scaled(retry.delay0, retry.log[i].n - 1)
              /\ retry.log[i - 1].e = "fn" /\ ~retry.log[i - 1].ok
              /\ retry.log[i - 1].n = retry.log[i].n
              /\ i < Len(retry.log) =>
                    /\ retry.log[i + 1].e = "fn"
                    /\ retry.log[i + 1].n = retry.log[i].n + 1
              /\ i = Len(retry.log) => retry.pc \in {"waiting", "calling"}
        /\ \A i \in FnEvents(retry.log) :
              i > 1 => retry.log[i - 1].e = "wait"
        /\ retry.pc = "waiting" => retry.log[Len(retry.log)].e = "wait"
        /\ Terminated => retry.log[Len(retry.log)].e = "fn"

C27_Witness ==
    /\ retry.pc = "returned"
    /\ retry.delay0 = 1000
    /\ Len(retry.log) = 5
    /\ retry.log[2].ms = 1000
    /\ retry.log[4].ms = 2000

\* C28: retryWithBackoff terminates for every integer retries, negative
\* ones included, even when fn rejects every time.
C28_Terminates == <>Terminated

\* the first occurrences of the IDs of offered that are no 0, null,
\* undefined or '', in the order they were offered
RECURSIVE FirstOffered(_, _)
FirstOffered(offered, seen) ==
    IF offered = <<>> THEN <<>>
    ELSE LET rest == SubSeq(offered, 2, Len(offered))
         IN  IF offered[1] \in {IntV(0), Null, Undefined, Str("")} \cup seen
             THEN FirstOffered(rest, seen)
             ELSE <<offered[1]>> \o FirstOffered(rest, seen \cup {offered[1]})

\* C29: the list holds no ID twice and no 0, null, undefined or '', keeps
\* the IDs in the order they were first added, is not changed by a caller
\* that changes an array getCreatedProducts returned, and the count logged
\* at teardown is the number of distinct truthy IDs added since the last
\* clear.
C29_NoDuplicatesNoFalsy ==
    LET list == testContext.createdProducts
    IN  /\ \A i, j \in 1..Len(list) : list[i] = list[j] => i = j
        /\ \A i \in 1..Len(list) : list[i] \notin {IntV(0), Null, Undefined, Str("")}
        /\ list = FirstOffered(caller.offered, {})
        /\ caller.logged # NoValue => caller.logged.count = caller.logged.distinct

C29_Witness ==
    /\ caller.op = "push"
    /\ caller.held.items = <<IntV(2), IntV(1), IntV(0)>>
    /\ testContext.createdProducts = <<IntV(2), IntV(1)>>
    /\ caller.offered = <<IntV(2), IntV(2), IntV(1)>>
    /\ caller.logged # NoValue
    /\ caller.logged.count = 1

\* C30: with a clock that never runs backwards, getDuration() is never
\* negative and stopTimer() returns the time since the most recent
\* startTimer(), whatever the sequence of calls.
C30_DurationNeverNegative ==
    /\ caller.op = "getDuration" => caller.returned >= 0
    /\ caller.op = "stopTimer" =>
          /\ caller.returned >= 0
          /\ caller.started # NoValue =>
                caller.returned = caller.at - caller.started.n

====
